---- MODULE Spec2Model ----
(***************************************************************************)
(* The entity synchronization engine of teleeye-api: the resolver          *)
(* (check_entities), the reconciler (log_object), the edit path            *)
(* (update_message), the copy/forward synthesizer and the two entry points *)
(* (handle_update, proxy_request / log_telegram_request), over a storage   *)
(* of six tables.  One action is one unit of work: one webhook delivery or *)
(* one proxied call, run against one database transaction.                 *)
(***************************************************************************)
EXTENDS Integers, Sequences, FiniteSets, Bags, TLC

VARIABLES db, last, prev, units

vars == <<db, last, prev, units>>

----------------------------------------------------------------------------
(* Bounds of the model *)

NumBots == 2
MaxUser == 1
MaxChat == 2
MaxMsg == 2
MaxFile == 1
MaxUnits == 1

(* None / SQL NULL where an integer is expected (all ids are positive), and
   None where a string is expected. *)
NULL == 0
NONE == "None"

Bots == 1..NumBots
UserIds == 1..MaxUser
ChatIds == 1..MaxChat
MsgIds == 1..MaxMsg
FileIds == 1..MaxFile
MsgKeys == ChatIds \X MsgIds

(* EntityCheckResultType *)
CHAT == 1
USER == 2
MESSAGE == 3
FILE == 4

----------------------------------------------------------------------------
(* Storage: six tables.  A table with a primary key is a function from the
   keys of its rows to the other columns; the two association tables are
   keyed by (bot, entity). *)

EmptyTable == [k \in {} |-> NULL]

EmptyDb ==
    [users |-> EmptyTable, chats |-> EmptyTable, messages |-> EmptyTable,
     files |-> EmptyTable, bot_messages |-> {}, bot_files |-> EmptyTable]

(* The table t with the rows of `rows` (a function key -> columns) added. *)
Insert(t, rows) ==
    [k \in DOMAIN t \cup DOMAIN rows |-> IF k \in DOMAIN t THEN t[k] ELSE rows[k]]

----------------------------------------------------------------------------
(* The Existence Resolver *)

(* The bag of f(p) for p in S: one result row per joined row. *)
SelectFrom(S, f(_)) ==
    [r \in {f(p) : p \in S} |-> Cardinality({p \in S : f(p) = r})]

SqlBool(b) == IF b THEN "true" ELSE "false"

ResultRow(chat_id, user_id, message_id, file_unique_id, exists, bot_relation, type) ==
    [chat_id |-> chat_id, user_id |-> user_id, message_id |-> message_id,
     file_unique_id |-> file_unique_id, exists |-> exists,
     bot_relation |-> bot_relation, type |-> type]

(* data or [(None,)]: an empty key list becomes one row holding one NULL. *)
non_empty_cte_data(data) == IF data = {} THEN {<<NULL>>} ELSE data

(* SELECT input_chats.chat_id, ..., CASE WHEN tc.id IS NOT NULL ...
   The statement names the CTE and the aliased table and joins them nowhere,
   so its FROM list is "input_chats, telegram_chats AS tc": every input row
   is paired with every row of the table. *)
chat_query(chat_cte, tc) ==
    SelectFrom(chat_cte \X tc,
        LAMBDA p : ResultRow(p[1][1], NULL, NULL, NULL, p[2] # NULL, "null", CHAT))

user_query(user_cte, tu) ==
    SelectFrom(user_cte \X tu,
        LAMBDA p : ResultRow(NULL, p[1][1], NULL, NULL, p[2] # NULL, "null", USER))

(* FROM input_messages, telegram_messages AS tm, bot_messages AS bm *)
msg_query(msg_cte, tm, bm) ==
    SelectFrom(msg_cte \X tm \X bm,
        LAMBDA p : ResultRow(p[1][1], NULL, p[1][2], NULL, p[2][2] # NULL,
                             SqlBool(p[3][3] # NULL), MESSAGE))

(* FROM input_files, telegram_files AS tf, bot_files AS bf *)
file_query(file_cte, tf, bf) ==
    SelectFrom(file_cte \X tf \X bf,
        LAMBDA p : ResultRow(NULL, NULL, NULL, p[1][1], p[2] # NULL,
                             SqlBool(p[3][2] # NULL), FILE))

(* check_entities: one statement.  The VALUES list of input_messages has two
   columns; a row of another width (the one-NULL row of an empty key list)
   makes the statement fail. *)
check_entities(d, chat_ids, user_ids, messages, file_ids, bot_id) ==
    LET chat_cte == non_empty_cte_data({<<c>> : c \in chat_ids})
        user_cte == non_empty_cte_data({<<u>> : u \in user_ids})
        msg_cte == non_empty_cte_data({<<k[1], k[2]>> : k \in messages})
        file_cte == non_empty_cte_data({<<f>> : f \in file_ids})
    IN IF \E t \in msg_cte : Len(t) # 2
       THEN [raised |-> TRUE, queries |-> 1, rows |-> EmptyBag]
       ELSE [raised |-> FALSE, queries |-> 1,
             rows |-> chat_query(chat_cte, DOMAIN d.chats)
                      (+) user_query(user_cte, DOMAIN d.users)
                      (+) msg_query(msg_cte, DOMAIN d.messages, d.bot_messages)
                      (+) file_query(file_cte, DOMAIN d.files, DOMAIN d.bot_files)]

----------------------------------------------------------------------------
(* Payload objects (the decoded object graph the extractor walks).  An absent
   optional object is the object with id NULL; an optional embedded message
   is a sequence of at most one message. *)

NoUser == [id |-> NULL, first_name |-> NONE, last_name |-> NONE, username |-> NONE,
           language_code |-> NONE, is_premium |-> NONE, is_bot |-> FALSE]
NoChat == [id |-> NULL, type |-> NONE, title |-> NONE, username |-> NULL]
NoFile == [file_unique_id |-> NULL, file_id |-> NULL, cls |-> NONE]

(* FILE_TO_TYPE_MAPPING, get_file_type: the kind of a file object by its
   class; None for any other class. *)
get_file_type(obj) ==
    CASE obj.cls = "PhotoSize" -> "photo"
      [] obj.cls = "Document" -> "document"
      [] OTHER -> NONE

(* remove_fields(data, exclude): the dict without the excluded keys. *)
remove_fields(data, exclude) == [k \in DOMAIN data \ exclude |-> data[k]]

(* The recursion of remove_fields over exclude_nested = ("file_id",): the
   dict of a file without its file_id. *)
strip_file_id(filedict) == remove_fields(filedict, {"file_id"})

(* telegram.PhotoSize.to_dict *)
FileToDict(f) ==
    [file_unique_id |-> f.file_unique_id, file_id |-> f.file_id]

(* telegram.Message.to_dict: one entry per attribute that is not None (a
   flag that is unset is None), the unknown keys of api_kwargs unpacked. *)
RECURSIVE MessageToDict(_)
MessageToDict(m) ==
    LET own == {"message_id", "chat", "date"}
               \cup (IF m.from_user.id # NULL THEN {"from"} ELSE {})
               \cup (IF m.text # NONE THEN {"text"} ELSE {})
               \cup (IF m.caption # NONE THEN {"caption"} ELSE {})
               \cup (IF m.edit_date # NULL THEN {"edit_date"} ELSE {})
               \cup (IF m.message_thread_id # NULL THEN {"message_thread_id"} ELSE {})
               \cup (IF m.has_protected_content THEN {"has_protected_content"} ELSE {})
               \cup (IF m.photo.file_unique_id # NULL THEN {"photo"} ELSE {})
               \cup (IF m.reply_to_message # <<>> THEN {"reply_to_message"} ELSE {})
               \cup (IF m.caption_entities # NONE THEN {"caption_entities"} ELSE {})
    IN [k \in own \cup DOMAIN m.api_kwargs |->
          IF k \in DOMAIN m.api_kwargs THEN m.api_kwargs[k]
          ELSE CASE k = "message_id" -> m.message_id
                 [] k = "chat" -> m.chat
                 [] k = "date" -> m.date
                 [] k = "from" -> m.from_user
                 [] k = "text" -> m.text
                 [] k = "caption" -> m.caption
                 [] k = "edit_date" -> m.edit_date
                 [] k = "message_thread_id" -> m.message_thread_id
                 [] k = "has_protected_content" -> m.has_protected_content
                 [] k = "photo" -> FileToDict(m.photo)
                 [] k = "caption_entities" -> m.caption_entities
                 [] k = "reply_to_message" -> MessageToDict(m.reply_to_message[1])]

(* remove_fields(msg.to_dict(), excluded, ("file_id",)): the excluded keys
   go at the top level only, file_id goes at every depth. *)
RECURSIVE strip_nested(_)
strip_nested(d) ==
    [k \in DOMAIN d |->
        CASE k = "photo" -> strip_file_id(d[k])
          [] k = "reply_to_message" -> strip_nested(d[k])
          [] OTHER -> d[k]]

(* get_message_excluded_fields: the keys promoted to columns.  (The four
   service flags that stay in the overflow when set are not modelled.) *)
get_message_excluded_fields ==
    {"message_id", "chat", "message_thread_id", "text", "caption", "from",
     "sender_chat", "sender_boost_count", "sender_business_bot", "date",
     "edit_date", "business_connection_id", "is_topic_message",
     "is_automatic_forward", "has_media_spoiler", "has_protected_content",
     "is_from_offline", "is_paid_post", "author_signature", "paid_star_count",
     "delete_chat_photo", "group_chat_created", "supergroup_chat_created",
     "channel_chat_created"}

(* get_message_type: the first attribute of MESSAGE_TYPE_ATTRIBUTE_MAP that
   is set. *)
get_message_type(m) ==
    IF m.text # NONE THEN "text"
    ELSE IF m.photo.file_unique_id # NULL THEN "photo"
    ELSE "service"

(* bulk_prepare_messages: the columns of one message row.  other_data is the
   empty dict where the code stores NULL. *)
bulk_prepare_messages(m) ==
    [message_type |-> get_message_type(m),
     message_thread_id |-> m.message_thread_id,
     text |-> m.text,
     caption |-> m.caption,
     from_user_id |-> m.from_user.id,
     date |-> m.date,
     edit_date |-> m.edit_date,
     has_protected_content |-> m.has_protected_content,
     other_data |-> strip_nested(
                        remove_fields(MessageToDict(m), get_message_excluded_fields))]

(* bulk_insert_users / bulk_insert_chats / bulk_prepare_files: the columns. *)
prepare_user(u) ==
    [first_name |-> u.first_name, last_name |-> u.last_name,
     username |-> u.username, language_code |-> u.language_code,
     is_premium |-> u.is_premium # NONE, is_bot |-> u.is_bot]

prepare_chat(c) ==
    [type |-> c.type, title |-> c.title, username |-> c.username,
     personal_chat_id |-> NULL, parent_chat_id |-> NULL,
     pinned_message_id |-> NULL,
     photo_small_id |-> NULL, photo_big_id |-> NULL, other_data |-> EmptyTable]

FILE_EXCLUDED_FIELDS ==
    {"file_unique_id", "file_id", "file_size", "mime_type", "file_type"}

bulk_prepare_files(filedict) ==
    [file_type |-> filedict["file_type"],
     other_data |-> remove_fields(filedict, FILE_EXCLUDED_FIELDS)]

----------------------------------------------------------------------------
(* The Entity Extractor *)

(* find_instances on one message object: the object itself, then its
   attributes in the order of dir(): chat, from_user, photo,
   reply_to_message.  Every decoded object is an instance of its own. *)
RECURSIVE find_instances(_, _)
find_instances(m, target_type) ==
    (IF target_type = "Message" THEN <<m>> ELSE <<>>)
    \o (IF target_type = "Chat" THEN <<m.chat>> ELSE <<>>)
    \o (IF target_type = "User" /\ m.from_user.id # NULL THEN <<m.from_user>> ELSE <<>>)
    \o (IF m.reply_to_message # <<>>
        THEN find_instances(m.reply_to_message[1], target_type) ELSE <<>>)

(* find_objects_with_attributes(obj, ("file_unique_id", "file_id")) *)
RECURSIVE find_objects_with_attributes(_)
find_objects_with_attributes(m) ==
    (IF m.photo.file_unique_id # NULL THEN <<m.photo>> ELSE <<>>)
    \o (IF m.reply_to_message # <<>>
        THEN find_objects_with_attributes(m.reply_to_message[1]) ELSE <<>>)

(* The walk over a list of root objects. *)
OverList(objs, walk(_)) ==
    LET upto[i \in 0..Len(objs)] ==
            IF i = 0 THEN <<>> ELSE upto[i - 1] \o walk(objs[i])
    IN upto[Len(objs)]

(* deduplicate / deduplicate_compound: key -> the first object with it. *)
deduplicate(objects, key(_)) ==
    [k \in {key(objects[i]) : i \in DOMAIN objects} |->
        objects[CHOOSE i \in DOMAIN objects :
                    /\ key(objects[i]) = k
                    /\ \A j \in 1..(i - 1) : key(objects[j]) # k]]

collect_entities(objs) ==
    LET users == OverList(objs, LAMBDA m : find_instances(m, "User"))
        chats == OverList(objs, LAMBDA m : find_instances(m, "Chat"))
        messages == OverList(objs, LAMBDA m : find_instances(m, "Message"))
        files == OverList(objs, find_objects_with_attributes)
        unique_files == deduplicate(files, LAMBDA f : f.file_unique_id)
        typed == {f \in DOMAIN unique_files : get_file_type(unique_files[f]) # NONE}
    IN [users |-> deduplicate(users, LAMBDA u : u.id),
        chats |-> deduplicate(chats, LAMBDA c : c.id),
        messages |-> deduplicate(messages, LAMBDA m : <<m.chat.id, m.message_id>>),
        files |-> [f \in typed |->
                     [file_unique_id |-> f, file_id |-> unique_files[f].file_id,
                      file_type |-> get_file_type(unique_files[f])]]]

----------------------------------------------------------------------------
(* The Reconciler *)

(* The list a loop of log_object appends to, as the bag of the appended
   keys: one copy per result row that passes the test. *)
Appended(rows, test(_), key(_)) ==
    LET hit == {r \in BagToSet(rows) : test(r)}
    IN [k \in {key(r) : r \in hit} |->
          BagCardinality([r \in {x \in hit : key(x) = k} |-> rows[r]])]

(* INSERT of the keys of `list` with the columns `cols`: a key listed twice
   or already in the table violates the primary key. *)
PkViolation(table_keys, list) ==
    \E k \in DOMAIN list : list[k] > 1 \/ k \in table_keys

Raise(tx) == [tx EXCEPT !.raised = TRUE]

bulk_insert_users(tx, new_users, unique_users) ==
    IF PkViolation(DOMAIN tx.db.users, new_users) THEN Raise(tx)
    ELSE [tx EXCEPT !.db.users =
            Insert(@, [k \in DOMAIN new_users |-> prepare_user(unique_users[k])])]

bulk_insert_chats(tx, new_chats, unique_chats) ==
    IF PkViolation(DOMAIN tx.db.chats, new_chats) THEN Raise(tx)
    ELSE [tx EXCEPT !.db.chats =
            Insert(@, [k \in DOMAIN new_chats |-> prepare_chat(unique_chats[k])])]

(* telegram_messages.chat_id and from_user_id are foreign keys. *)
MessageFkViolation(d, chat_id, row) ==
    \/ chat_id \notin DOMAIN d.chats
    \/ row.from_user_id # NULL /\ row.from_user_id \notin DOMAIN d.users

bulk_insert_messages(tx, new_messages, unique_messages) ==
    LET rows == [k \in DOMAIN new_messages |-> bulk_prepare_messages(unique_messages[k])]
    IN IF \/ PkViolation(DOMAIN tx.db.messages, new_messages)
          \/ \E k \in DOMAIN rows : MessageFkViolation(tx.db, k[1], rows[k])
       THEN Raise(tx)
       ELSE [tx EXCEPT !.db.messages = Insert(@, rows)]

(* bot_messages: primary key (bot_id, chat_id, message_id), foreign key to
   the message. *)
bulk_insert_bot_messages(tx, data, bot_id) ==
    LET keys == {<<bot_id, k[1], k[2]>> : k \in DOMAIN data}
    IN IF \/ \E k \in DOMAIN data : data[k] > 1
          \/ keys \cap tx.db.bot_messages # {}
          \/ \E k \in DOMAIN data : k \notin DOMAIN tx.db.messages
       THEN Raise(tx)
       ELSE [tx EXCEPT !.db.bot_messages = @ \cup keys]

bulk_insert_files(tx, new_files, files_json) ==
    IF PkViolation(DOMAIN tx.db.files, new_files) THEN Raise(tx)
    ELSE [tx EXCEPT !.db.files =
            Insert(@, [k \in DOMAIN new_files |-> bulk_prepare_files(files_json[k])])]

(* bot_files: primary key (bot_id, file_unique_id), foreign key to the file;
   data maps file_unique_id to the number of copies listed. *)
bulk_insert_bot_files(tx, data, file_id_of, bot_id) ==
    LET keys == {<<bot_id, f>> : f \in DOMAIN data}
    IN IF \/ \E f \in DOMAIN data : data[f] > 1
          \/ keys \cap DOMAIN tx.db.bot_files # {}
          \/ \E f \in DOMAIN data : f \notin DOMAIN tx.db.files
       THEN Raise(tx)
       ELSE [tx EXCEPT !.db.bot_files =
               Insert(@, [k \in keys |-> [file_id |-> file_id_of[k[2]]]])]

(* One step of a transaction that has not failed yet. *)
Then(tx, cond, step(_)) == IF tx.raised \/ ~cond THEN tx ELSE step(tx)

NoFlags == <<FALSE, FALSE, FALSE, FALSE, FALSE, FALSE>>

(* log_object, the loop over the result rows: the six lists it fills. *)
partition_rows(rows) ==
    [users |-> Appended(rows,
        LAMBDA r : r.type = USER /\ r.user_id # NULL /\ ~r.exists,
        LAMBDA r : r.user_id),
     chats |-> Appended(rows,
        LAMBDA r : r.type = CHAT /\ r.chat_id # NULL /\ ~r.exists,
        LAMBDA r : r.chat_id),
     messages |-> Appended(rows,
        LAMBDA r : r.type = MESSAGE /\ r.chat_id # NULL /\ r.message_id # NULL
                   /\ ~r.exists,
        LAMBDA r : <<r.chat_id, r.message_id>>),
     bot_messages |-> Appended(rows,
        LAMBDA r : r.type = MESSAGE /\ r.chat_id # NULL /\ r.message_id # NULL
                   /\ r.bot_relation # "true",
        LAMBDA r : <<r.chat_id, r.message_id>>),
     files |-> Appended(rows,
        LAMBDA r : r.type = FILE /\ r.file_unique_id # NULL /\ ~r.exists,
        LAMBDA r : r.file_unique_id),
     bot_files |-> Appended(rows,
        LAMBDA r : r.type = FILE /\ r.file_unique_id # NULL
                   /\ r.bot_relation # "true",
        LAMBDA r : r.file_unique_id)]

(* A reconciler that is not insert-only: the stored users and chats of the
   payload are overwritten with the payload's fields (bulk_update_users,
   bulk_update_chats). *)
update_existing(tx, e, new, bot_id) ==
    [tx EXCEPT !.db.users = [k \in DOMAIN @ |->
                                IF k \in DOMAIN e.users THEN prepare_user(e.users[k])
                                ELSE @[k]],
               !.db.chats = [k \in DOMAIN @ |->
                                IF k \in DOMAIN e.chats THEN prepare_chat(e.chats[k])
                                ELSE @[k]]]

(* A bulk statement of log_object is about to execute: its name and the
   storage it finds are noted. *)
Stmt(tx, name) == [tx EXCEPT !.stmts = Append(@, [stmt |-> name, before |-> tx.db])]

(* A reconciler that inserts the messages and their links before the users
   and the chats. *)
insert_messages_first(tx, e, new, bot_id) ==
    LET t1 == Then(tx, new.messages # EmptyBag,
                   LAMBDA t : bulk_insert_messages(Stmt(t, "messages"), new.messages,
                                                   e.messages))
        t2 == Then(t1, new.bot_messages # EmptyBag,
                   LAMBDA t : bulk_insert_bot_messages(Stmt(t, "bot_messages"),
                                                       new.bot_messages, bot_id))
        t3 == Then(t2, new.users # EmptyBag,
                   LAMBDA t : bulk_insert_users(Stmt(t, "users"), new.users, e.users))
        t4 == Then(t3, new.chats # EmptyBag,
                   LAMBDA t : bulk_insert_chats(Stmt(t, "chats"), new.chats, e.chats))
        t5 == Then(t4, new.files # EmptyBag,
                   LAMBDA t : bulk_insert_files(Stmt(t, "files"), new.files, e.files))
    IN Then(t5, new.bot_files # EmptyBag,
            LAMBDA t : bulk_insert_bot_files(Stmt(t, "bot_files"), new.bot_files,
                           [f \in DOMAIN e.files |-> e.files[f].file_id], bot_id))

(* log_object, the inserts, in the order of the code: users, chats,
   messages, bot-message links, files, bot-file links. *)
insert_new(tx, e, new, bot_id) ==
    LET t1 == Then(tx, new.users # EmptyBag,
                   LAMBDA t : bulk_insert_users(Stmt(t, "users"), new.users, e.users))
        t2 == Then(t1, new.chats # EmptyBag,
                   LAMBDA t : bulk_insert_chats(Stmt(t, "chats"), new.chats, e.chats))
        t3 == Then(t2, new.messages # EmptyBag,
                   LAMBDA t : bulk_insert_messages(Stmt(t, "messages"), new.messages,
                                                   e.messages))
        t4 == Then(t3, new.bot_messages # EmptyBag,
                   LAMBDA t : bulk_insert_bot_messages(Stmt(t, "bot_messages"),
                                                       new.bot_messages, bot_id))
        t5 == Then(t4, new.files # EmptyBag,
                   LAMBDA t : bulk_insert_files(Stmt(t, "files"), new.files, e.files))
    IN Then(t5, new.bot_files # EmptyBag,
            LAMBDA t : bulk_insert_bot_files(Stmt(t, "bot_files"), new.bot_files,
                           [f \in DOMAIN e.files |-> e.files[f].file_id], bot_id))

(* log_object, the returned tuple (res[4] here is res[3] of the code, "new
   bot-message links"). *)
result_flags(new) ==
    <<new.users # EmptyBag, new.chats # EmptyBag, new.messages # EmptyBag,
      new.bot_messages # EmptyBag, new.files # EmptyBag, new.bot_files # EmptyBag>>

(* log_object, after the resolver has answered. *)
reconcile(tx, e, check, new, bot_id) ==
    IF check.raised
    THEN [tx |-> [tx EXCEPT !.raised = TRUE, !.queries = @ + check.queries,
                            !.check = check],
          res |-> NoFlags]
    ELSE [tx |-> insert_new([tx EXCEPT !.queries = @ + check.queries, !.check = check],
                            e, new, bot_id),
          res |-> result_flags(new)]

(* log_object, after the extractor has answered. *)
resolve(tx, e, check, bot_id) ==
    reconcile(tx, e, check, partition_rows(check.rows), bot_id)

log_entities(tx, e, bot_id) ==
    resolve(tx, e, check_entities(tx.db, DOMAIN e.chats, DOMAIN e.users,
                                  DOMAIN e.messages, DOMAIN e.files, bot_id), bot_id)

(* log_object: extract, resolve, partition, insert. *)
log_object(tx, objs, bot_id) ==
    IF tx.raised THEN [tx |-> tx, res |-> NoFlags]
    ELSE log_entities(tx, collect_entities(objs), bot_id)

(* UPDATE telegram_messages SET <every column but the key> WHERE id, chat_id *)
SetMessageRow(tx, key, row) ==
    IF key \notin DOMAIN tx.db.messages THEN tx
    ELSE IF MessageFkViolation(tx.db, key[1], row) THEN Raise(tx)
    ELSE [tx EXCEPT !.db.messages[key] = row]

UpdateMessageRow(tx, m) ==
    IF tx.raised THEN tx
    ELSE SetMessageRow(tx, <<m.chat.id, m.message_id>>, bulk_prepare_messages(m))

(* update_message, after log_object has returned: nothing more if it
   reported new bot-message links. *)
apply_edit(logged, message) ==
    IF logged.res[4] THEN logged.tx ELSE UpdateMessageRow(logged.tx, message)

(* update_message *)
update_message(tx, message, bot_id, skip_log) ==
    IF skip_log THEN UpdateMessageRow(tx, message)
    ELSE apply_edit(log_object(tx, <<message>>, bot_id), message)

----------------------------------------------------------------------------
(* Transactions and the webhook entry point *)

NoCheck == [raised |-> FALSE, queries |-> 0, rows |-> EmptyBag]

(* A unit of work starts on the committed storage: db is what the session
   sees, committed what the database holds. *)
Begin(d) == [db |-> d, committed |-> d, raised |-> FALSE, queries |-> 0,
             check |-> NoCheck, fetches |-> 0, stmts |-> <<>>]

(* await db.commit(): reached only if nothing was raised before it. *)
Commit(tx) == IF tx.raised THEN tx ELSE [tx EXCEPT !.committed = tx.db]

(* telegram.Update: at most one of its optional fields is set. *)
MakeUpdate(kind, m) ==
    [message |-> IF kind = "message" THEN <<m>> ELSE <<>>,
     edited_message |-> IF kind = "edited_message" THEN <<m>> ELSE <<>>,
     edited_channel_post |-> IF kind = "edited_channel_post" THEN <<m>> ELSE <<>>,
     edited_business_message |->
         IF kind = "edited_business_message" THEN <<m>> ELSE <<>>]

(* The message objects an Update holds, in the order of dir(). *)
UpdateObjects(update) ==
    update.edited_business_message \o update.edited_channel_post
    \o update.edited_message \o update.message

(* handle_update, from the decoded body to the commit: the try block.  An
   exception leaves the session uncommitted. *)
handle_update(d, bot_id, update) ==
    LET updated_message ==
            IF update.edited_message # <<>> THEN update.edited_message
            ELSE IF update.edited_channel_post # <<>> THEN update.edited_channel_post
            ELSE IF update.edited_business_message # <<>>
                 THEN update.edited_business_message
            ELSE <<>>
        logged == log_object(Begin(d), UpdateObjects(update), bot_id).tx
    IN Commit(Then(logged, updated_message # <<>>,
                   LAMBDA t : update_message(t, updated_message[1], bot_id, TRUE)))

(* The storage a unit of work leaves when its session is closed: what it
   committed; writes that were not committed are rolled back. *)
Committed(tx) == tx.committed

(* handle_update, the try block entered with the parsed body: Update.de_json
   may raise, which leaves the session uncommitted. *)
synchronize(d, bot_id, body) ==
    IF body.decodable THEN handle_update(d, bot_id, body.update)
    ELSE Raise(Begin(d))

(* A redirect step that is taken only after a commit. *)
redirect_after_commit_only(events, webhook) ==
    IF webhook.redirect_url /\ events = <<"commit">> THEN Append(events, "post")
    ELSE events

(* handle_update, the redirect step: with a redirect URL the body is posted;
   an exception of the POST (a refusal, a timeout) is caught and logged.
   events lists what the handler did, in order. *)
redirect_step(events, webhook) ==
    IF webhook.redirect_url
    THEN events \o (IF webhook.post_ok THEN <<"post">> ELSE <<"post", "post failed">>)
    ELSE events

(* handle_update, after the try block: the redirect step, then
   Response(status_code=200). *)
answer_update(tx, webhook) ==
    [status_code |-> 200,
     events |-> redirect_step(<<IF tx.raised THEN "exception logged" ELSE "commit">>,
                              webhook)]

----------------------------------------------------------------------------
(* The Profile Refresher, as far as the synthesizer uses it *)

(* log_me: UPDATE telegram_users SET first_name, last_name, username,
   language_code WHERE id = user.id. *)
log_me(tx, user) ==
    [tx EXCEPT !.db.users =
        [k \in DOMAIN @ |->
            IF k = user.id
            THEN [@[k] EXCEPT !.first_name = user.first_name,
                              !.last_name = user.last_name,
                              !.username = user.username,
                              !.language_code = user.language_code]
            ELSE @[k]]]

NoPinned == [message_id |-> NULL]

NoPhoto == [small_file_unique_id |-> NULL, big_file_unique_id |-> NULL,
            small_file_id |-> NULL, big_file_id |-> NULL]

(* chat_photo_check_entities: the two avatar ids, each left-joined to its
   file row and to the current bot's link.  One result row per input row. *)
chat_photo_check_entities(d, chat_photo, bot_id) ==
    LET input == <<chat_photo.small_file_unique_id, chat_photo.big_file_unique_id>>
    IN [i \in DOMAIN input |->
          [file_unique_id |-> input[i],
           exists |-> input[i] \in DOMAIN d.files,
           bot_relation |-> <<bot_id, input[i]>> \in DOMAIN d.bot_files]]

(* insert_chat_photo_if_not_exist / insert_chat_photo_entities *)
insert_chat_photo_if_not_exist(tx, photo, bot_id) ==
    LET bot_files == (photo.small_file_unique_id :> photo.small_file_id)
                     @@ (photo.big_file_unique_id :> photo.big_file_id)
        res == chat_photo_check_entities(tx.db, photo, bot_id)
        files_json == SelectFrom({i \in DOMAIN res : ~res[i].exists},
                                 LAMBDA i : res[i].file_unique_id)
        insert_bot_files ==
            SelectFrom({i \in DOMAIN res : ~res[i].bot_relation
                                           /\ bot_files[res[i].file_unique_id] # NULL},
                       LAMBDA i : res[i].file_unique_id)
        t0 == [tx EXCEPT !.queries = @ + 1]
        t1 == Then(t0, files_json # EmptyBag,
                   LAMBDA t : bulk_insert_files(t, files_json,
                       [f \in DOMAIN files_json |->
                           [file_unique_id |-> f, file_type |-> "chat_photo"]]))
    IN Then(t1, insert_bot_files # EmptyBag,
            LAMBDA t : bulk_insert_bot_files(t, insert_bot_files, bot_files, bot_id))

(* telegram_chats: the self-references and the avatar ids are foreign keys. *)
ChatFkViolation(d, id, row) ==
    \/ row.personal_chat_id \notin {NULL, id} \cup DOMAIN d.chats
    \/ row.parent_chat_id \notin {NULL, id} \cup DOMAIN d.chats
    \/ row.photo_small_id \notin {NULL} \cup DOMAIN d.files
    \/ row.photo_big_id \notin {NULL} \cup DOMAIN d.files

CHAT_EXCLUDED_FIELDS ==
    {"id", "type", "title", "username", "first_name", "last_name", "is_forum",
     "is_direct_messages", "personal_chat", "parent_chat", "pinned_message",
     "photo"}

(* telegram.ChatFullInfo.to_dict: one entry per attribute that is not None. *)
ChatFullInfoToDict(chat) ==
    LET keys == {"id", "type", "accent_color_id"}
                \cup (IF chat.title # NONE THEN {"title"} ELSE {})
                \cup (IF chat.username # NULL THEN {"username"} ELSE {})
                \cup (IF chat.personal_chat.id # NULL THEN {"personal_chat"} ELSE {})
                \cup (IF chat.parent_chat.id # NULL THEN {"parent_chat"} ELSE {})
                \cup (IF chat.pinned_message # NoPinned THEN {"pinned_message"} ELSE {})
                \cup (IF chat.photo # NoPhoto THEN {"photo"} ELSE {})
    IN [k \in keys |->
          CASE k = "id" -> chat.id
            [] k = "type" -> chat.type
            [] k = "accent_color_id" -> chat.accent_color_id
            [] k = "title" -> chat.title
            [] k = "username" -> chat.username
            [] k = "personal_chat" -> chat.personal_chat
            [] k = "parent_chat" -> chat.parent_chat
            [] k = "pinned_message" -> chat.pinned_message
            [] k = "photo" -> chat.photo]

(* The columns log_new_chat_full_info and log_chat_full_info write. *)
chat_full_info_row(chat) ==
    [type |-> chat.type, title |-> chat.title, username |-> chat.username,
     personal_chat_id |-> chat.personal_chat.id,
     parent_chat_id |-> chat.parent_chat.id,
     pinned_message_id |-> chat.pinned_message.message_id,
     photo_small_id |-> chat.photo.small_file_unique_id,
     photo_big_id |-> chat.photo.big_file_unique_id,
     other_data |-> remove_fields(ChatFullInfoToDict(chat), CHAT_EXCLUDED_FIELDS)]

(* A refresher that merges the fetched chat into a stored row of the same
   id instead of inserting it. *)
merge_chat_full_info(tx, chat, bot_id) ==
    IF tx.raised \/ ChatFkViolation(tx.db, chat.id, chat_full_info_row(chat))
    THEN Raise(tx)
    ELSE [tx EXCEPT !.db.chats =
             [c \in DOMAIN @ \cup {chat.id} |->
                 IF c = chat.id THEN chat_full_info_row(chat) ELSE @[c]]]

(* log_new_chat_full_info: the avatar files, then INSERT of the chat row. *)
log_new_chat_full_info(tx, chat, bot_id) ==
    LET t1 == Then(tx, chat.photo # NoPhoto,
                   LAMBDA t : insert_chat_photo_if_not_exist(t, chat.photo, bot_id))
        row == chat_full_info_row(chat)
    IN Then(t1, TRUE,
            LAMBDA t : IF chat.id \in DOMAIN t.db.chats \/ ChatFkViolation(t.db, chat.id, row)
                       THEN Raise(t)
                       ELSE [t EXCEPT !.db.chats = Insert(@, chat.id :> row)])

(* log_chats: the listed chats (a dict by id) are inserted, or their
   type, title and username overwritten. *)
log_chats(tx, chats) ==
    [tx EXCEPT !.db.chats =
        [c \in DOMAIN @ \cup DOMAIN chats |->
            IF c \notin DOMAIN chats THEN @[c]
            ELSE IF c \notin DOMAIN @ THEN prepare_chat(chats[c])
            ELSE [@[c] EXCEPT !.type = chats[c].type,
                              !.title = chats[c].title,
                              !.username = chats[c].username]]]

(* UPDATE of the stored chat row with every column of the snapshot. *)
overwrite_chat(tx, id, row) ==
    IF ChatFkViolation(tx.db, id, row) THEN Raise(tx)
    ELSE [tx EXCEPT !.db.chats[id] = row]

(* log_chat_full_info: a chat that is not stored is inserted; of a stored
   one the avatar files are inserted where missing and the row is
   overwritten. *)
log_chat_full_info(tx, chat, bot_id) ==
    IF chat.id \notin DOMAIN tx.db.chats
    THEN log_new_chat_full_info(tx, chat, bot_id)
    ELSE Then(Then(tx, chat.photo # NoPhoto,
                   LAMBDA t : insert_chat_photo_if_not_exist(t, chat.photo, bot_id)),
              TRUE, LAMBDA t : overwrite_chat(t, chat.id, chat_full_info_row(chat)))

(* log_telegram_request, getChatFullInfo: chats_to_log, the personal chat
   and the parent chat of the snapshot by id. *)
chats_to_log(chat_info) ==
    [c \in {chat_info.personal_chat.id, chat_info.parent_chat.id} \ {NULL} |->
        IF c = chat_info.parent_chat.id THEN chat_info.parent_chat
        ELSE chat_info.personal_chat]

(* log_telegram_request, getChatFullInfo: the linked chats, then the chat. *)
log_linked_then_chat(tx, chat_info, bot_id) ==
    log_chat_full_info(Then(tx, chats_to_log(chat_info) # EmptyTable,
                            LAMBDA t : log_chats(t, chats_to_log(chat_info))),
                       chat_info, bot_id)

(* GET /{chat_id}/avatar, after get_chat has answered: the snapshot is
   stored and committed; an exception is not caught. *)
get_chat_avatar(d, chat_info, bot_id) ==
    Commit(log_chat_full_info(Begin(d), chat_info, bot_id))

(* GET /{chat_id}/avatar, the answer: the small avatar, 404 without photo,
   502 when the download fails, and the server's 500 for an exception. *)
avatar_response(tx, chat_info, download_ok) ==
    CASE tx.raised -> [status_code |-> 500, content |-> "Internal Server Error"]
      [] ~tx.raised /\ chat_info.photo = NoPhoto ->
            [status_code |-> 404, content |-> "Avatar not found"]
      [] ~tx.raised /\ chat_info.photo # NoPhoto /\ ~download_ok ->
            [status_code |-> 502, content |-> "Telegram API Error"]
      [] OTHER -> [status_code |-> 200, content |-> "image/jpeg"]

(* A live fetch that commits the fetched chat at once. *)
fetch_and_commit(tx, env, bot_id) ==
    IF ~env.fetch_ok THEN Raise([tx EXCEPT !.fetches = @ + 1])
    ELSE Commit(log_new_chat_full_info([tx EXCEPT !.fetches = @ + 1], env.info, bot_id))

(* fetch_new_chat_info: one live get_chat, which may fail, then the insert.
   env.info is what the remote API answers. *)
fetch_new_chat_info(tx, env, bot_id) ==
    LET t1 == [tx EXCEPT !.fetches = @ + 1]
    IN IF ~env.fetch_ok THEN Raise(t1)
       ELSE log_new_chat_full_info(t1, env.info, bot_id)

----------------------------------------------------------------------------
(* The Derived-Message Synthesizer *)

Put(dict, k, v) == [x \in DOMAIN dict \cup {k} |-> IF x = k THEN v ELSE dict[x]]

(* TelegramMessage.to_dict: every column under its API name (None included),
   then the overflow laid over it. *)
TelegramMessageToDict(key, row) ==
    LET data == [k \in {"message_id", "chat", "message_thread_id", "message_type",
                        "text", "caption", "from", "date", "edit_date",
                        "has_protected_content"} |->
                   CASE k = "message_id" -> key[2]
                     [] k = "chat" -> [NoChat EXCEPT !.id = key[1], !.type = ""]
                     [] k = "message_thread_id" -> row.message_thread_id
                     [] k = "message_type" -> row.message_type
                     [] k = "text" -> row.text
                     [] k = "caption" -> row.caption
                     [] k = "from" -> IF row.from_user_id # NULL
                                      THEN [NoUser EXCEPT !.id = row.from_user_id,
                                                          !.first_name = ""]
                                      ELSE NoUser
                     [] k = "date" -> row.date
                     [] k = "edit_date" -> row.edit_date
                     [] k = "has_protected_content" -> row.has_protected_content]
    IN [k \in DOMAIN data \cup DOMAIN row.other_data |->
          IF k \in DOMAIN row.other_data THEN row.other_data[k] ELSE data[k]]

(* The keys telegram.Message takes as attributes; any other key of the dict
   is kept in api_kwargs. *)
MessageInitParams ==
    {"message_id", "chat", "message_thread_id", "text", "caption", "from", "date",
     "edit_date", "has_protected_content", "photo", "reply_to_message",
     "caption_entities"}

(* Whether telegram.Message.de_json accepts the dict: the file classes
   require file_id, at every depth. *)
RECURSIVE Decodable(_)
Decodable(d) ==
    /\ {"message_id", "chat", "date"} \subseteq DOMAIN d
    /\ "photo" \in DOMAIN d => "file_id" \in DOMAIN d["photo"]
    /\ "reply_to_message" \in DOMAIN d => Decodable(d["reply_to_message"])

Get(d, k, default) == IF k \in DOMAIN d THEN d[k] ELSE default

(* telegram.Message.de_json of a decodable dict *)
RECURSIVE de_json(_)
de_json(d) ==
    [message_id |-> d["message_id"],
     chat |-> d["chat"],
     from_user |-> Get(d, "from", NoUser),
     date |-> d["date"],
     edit_date |-> Get(d, "edit_date", NULL),
     message_thread_id |-> Get(d, "message_thread_id", NULL),
     text |-> Get(d, "text", NONE),
     caption |-> Get(d, "caption", NONE),
     has_protected_content |-> Get(d, "has_protected_content", FALSE),
     caption_entities |-> Get(d, "caption_entities", NONE),
     photo |-> IF "photo" \in DOMAIN d
               THEN [file_unique_id |-> d["photo"].file_unique_id,
                     file_id |-> d["photo"].file_id, cls |-> "PhotoSize"]
               ELSE NoFile,
     reply_to_message |-> IF "reply_to_message" \in DOMAIN d
                          THEN <<de_json(d["reply_to_message"])>> ELSE <<>>,
     api_kwargs |-> [k \in DOMAIN d \ MessageInitParams |-> d[k]]]


(* make_message_db_object: the same columns as bulk_prepare_messages. *)
make_message_db_object(m) == bulk_prepare_messages(m)

(* The chat ids the LEFT OUTER JOIN on username pairs with the source rows:
   every chat of that username, or one NULL.  rows[0] is any of them. *)
JoinedChatIds(d, username) ==
    LET hit == {c \in DOMAIN d.chats : d.chats[c].username = username}
    IN IF hit = {} THEN {NULL} ELSE hit

(* The destination of a copy/forward: whether it is stored, and its id.
   chat_id is [handle |-> is it an "@username" string, v |-> the value]. *)
ResolveDestination(d, chat_id, env) ==
    IF chat_id.handle THEN env.first
    ELSE IF chat_id.v \in DOMAIN d.chats THEN chat_id.v ELSE NULL

(* dict[k] = v if cond *)
PutIf(cond, dict, k, v) == IF cond THEN Put(dict, k, v) ELSE dict

(* msg_dict["chat"]["id"] = chat_id *)
SetChatId(dict, chat_id) == Put(dict, "chat", [dict["chat"] EXCEPT !.id = chat_id])

(* The edits of the cloned dict common to the three copy/forward methods. *)
CloneDict(key, row, new_id, chat_id, req) ==
    PutIf(req.message_thread_id # NULL,
          SetChatId(Put(remove_fields(TelegramMessageToDict(key, row), {"edit_date"}),
                        "message_id", new_id),
                    chat_id),
          "message_thread_id", req.message_thread_id)

(* A value that is put where the message dict is expected. *)
NotAMessage(v) == [value |-> v]

(* copyMessage: the overrides of the request, in the order of the code. *)
CopyDict(d0, req) ==
    LET d1 == PutIf(req.protect_content, d0, "has_protected_content", TRUE)
        d2 == PutIf(req.caption # NONE, d1, "caption", req.caption)
        d3 == PutIf(req.caption_entities # NONE, d2, "caption_entities",
                    req.caption_entities)
    IN IF req.reply_markup # NONE THEN NotAMessage(req.reply_markup)
       ELSE IF req.show_caption_above_media
            THEN NotAMessage(req.show_caption_above_media)
       ELSE d3

(* db.add(db_msg); db.add(BotMessage(...)), as the flush of the commit
   applies them *)
AddMessage(t, key, db_msg, bot_id, chat_id, copied_id) ==
    IF \/ key \in DOMAIN t.db.messages
       \/ MessageFkViolation(t.db, key[1], db_msg)
       \/ <<bot_id, chat_id, copied_id>> \in t.db.bot_messages
       \/ <<chat_id, copied_id>> \notin DOMAIN t.db.messages \cup {key}
    THEN Raise(t)
    ELSE [t EXCEPT !.db.messages = Insert(@, key :> db_msg),
                   !.db.bot_messages = @ \cup {<<bot_id, chat_id, copied_id>>}]

AddDecoded(t, json_msg, bot_id, chat_id, copied_id) ==
    AddMessage(t, <<json_msg.chat.id, json_msg.message_id>>,
               make_message_db_object(json_msg), bot_id, chat_id, copied_id)

AddClone(t, msg_dict, bot_id, chat_id, copied_id) ==
    IF t.raised THEN t
    ELSE IF ~Decodable(msg_dict) THEN Raise(t)
    ELSE AddDecoded(t, de_json(msg_dict), bot_id, chat_id, copied_id)

(* The destination chat id after the lookup: the stored one (found), or the
   one get_chat answers. *)
DestinationId(found, env) == IF found # NULL THEN found ELSE env.info.id

(* if not chat_exists: fetch_new_chat_info *)
FetchIfMissing(tx, found, env, bot_id) ==
    IF found # NULL THEN tx ELSE fetch_new_chat_info(tx, env, bot_id)

(* copyMessage, the source row found: fetch, clone, add, commit. *)
CopyOne(tx, src, req, copied_id, found, bot_id, env) ==
    Commit(AddClone(FetchIfMissing(tx, found, env, bot_id),
                    CopyDict(CloneDict(src, tx.db.messages[src], copied_id,
                                       DestinationId(found, env), req), req),
                    bot_id, DestinationId(found, env), copied_id))

(* log_telegram_request, method copyMessage *)
copyMessage(tx, req, data, bot_id, env) ==
    IF \/ req.chat_id.v = NULL \/ req.from_chat_id = NULL
       \/ req.message_id = NULL \/ data.message_id = NULL
    THEN tx
    ELSE IF <<req.from_chat_id, req.message_id>> \notin DOMAIN tx.db.messages
    THEN [tx EXCEPT !.queries = @ + 1]
    ELSE CopyOne([tx EXCEPT !.queries = @ + 1], <<req.from_chat_id, req.message_id>>,
                 req, data.message_id, ResolveDestination(tx.db, req.chat_id, env),
                 bot_id, env)

(* The sub-sequence of the indices 1..n whose test holds. *)
Indices(n, test(_)) ==
    LET upto[i \in 0..n] ==
            IF i = 0 THEN <<>>
            ELSE IF test(i) THEN Append(upto[i - 1], i) ELSE upto[i - 1]
    IN upto[n]

(* copyMessages / forwardMessages: the dict of one clone. *)
BulkDict(d, key, new_id, chat_id, req, method) ==
    PutIf(req.protect_content,
          PutIf(req.remove_caption /\ method = "copyMessages",
                CloneDict(key, d.messages[key], new_id, chat_id, req),
                "caption", NONE),
          "has_protected_content", TRUE)

(* new_messages: the clones are decoded, then reconciled. *)
LogClones(t, dicts, bot_id) ==
    IF t.raised THEN t
    ELSE IF \E j \in DOMAIN dicts : ~Decodable(dicts[j]) THEN Raise(t)
    ELSE log_object(t, [j \in DOMAIN dicts |-> de_json(dicts[j])], bot_id).tx

(* copied_messages: the (source, new id) pairs whose source is stored. *)
CopyMany(tx, req, copied_ids, copied_messages, method, found, bot_id, env) ==
    LogClones(FetchIfMissing(tx, found, env, bot_id),
              [j \in DOMAIN copied_messages |->
                  BulkDict(tx.db, <<req.from_chat_id, req.message_ids[copied_messages[j]]>>,
                           copied_ids[copied_messages[j]], DestinationId(found, env),
                           req, method)],
              bot_id)

(* A synthesizer that resolves the destination, by a live fetch if it is not
   stored, before it looks at the id lists and the sources. *)
resolve_destination_first(tx, req, data, method, bot_id, env) ==
    IF req.chat_id.v = NULL THEN tx
    ELSE FetchIfMissing([tx EXCEPT !.queries = @ + 1],
                        ResolveDestination(tx.db, req.chat_id, env), env, bot_id)

(* log_telegram_request, methods copyMessages and forwardMessages *)
copyMessages(tx, req, data, method, bot_id, env) ==
    IF \/ req.chat_id.v = NULL \/ req.from_chat_id = NULL
       \/ req.message_ids = <<>> \/ data = <<>>
       \/ Len(req.message_ids) # Len(data)
    THEN tx
    ELSE IF \A i \in DOMAIN req.message_ids :
                <<req.from_chat_id, req.message_ids[i]>> \notin DOMAIN tx.db.messages
    THEN [tx EXCEPT !.queries = @ + 1]
    ELSE CopyMany([tx EXCEPT !.queries = @ + 1], req, data,
                  Indices(Len(req.message_ids),
                          LAMBDA i : <<req.from_chat_id, req.message_ids[i]>>
                                        \in DOMAIN tx.db.messages),
                  method, ResolveDestination(tx.db, req.chat_id, env), bot_id, env)

----------------------------------------------------------------------------
(* The proxy entry point *)

MESSAGE_RETURNED_METHODS ==
    {"sendMessage", "forwardMessage", "sendPhoto", "sendAudio", "sendDocument",
     "sendVideo", "sendAnimation", "sendVoice", "sendVideoNote", "sendPaidMedia",
     "sendLocation", "sendVenue", "sendContact", "sendPoll", "sendChecklist",
     "sendDice", "sendSticker", "sendInvoice", "sendGame"}

EDITED_MESSAGE_RETURNED_METHODS ==
    {"editMessageText", "editMessageCaption", "editMessageMedia",
     "editMessageLiveLocation", "stopMessageLiveLocation", "editMessageChecklist",
     "editMessageReplyMarkup", "setGameScore"}

(* The first of the three edited fields an Update holds, if any. *)
edited_of(update) ==
    IF update.edited_message # <<>> THEN update.edited_message
    ELSE IF update.edited_channel_post # <<>> THEN update.edited_channel_post
    ELSE update.edited_business_message

RECURSIVE updated_messages(_)
updated_messages(data) ==
    IF data = <<>> THEN <<>>
    ELSE edited_of(Head(data)) \o updated_messages(Tail(data))

RECURSIVE all_update_objects(_)
all_update_objects(data) ==
    IF data = <<>> THEN <<>>
    ELSE UpdateObjects(Head(data)) \o all_update_objects(Tail(data))

(* for message in updated_messages: update_message(..., skip_log=True) *)
RECURSIVE update_each(_, _, _)
update_each(tx, messages, bot_id) ==
    IF messages = <<>> THEN tx
    ELSE update_each(update_message(tx, Head(messages), bot_id, TRUE),
                     Tail(messages), bot_id)

(* The getUpdates branch: the updates are logged as one object, then every
   edited message is written over its row, in list order. *)
getUpdates(tx, data, bot_id) ==
    update_each(log_object(tx, all_update_objects(data), bot_id).tx,
                updated_messages(data), bot_id)

(* log_telegram_request: the dispatch on the method name.  data is the
   decoded result; env is what the environment decides during the unit. *)
log_telegram_request(tx, req, data, method, bot_id, env) ==
    CASE method \in {"copyMessages", "forwardMessages"} ->
            copyMessages(tx, req, data, method, bot_id, env)
      [] method \in MESSAGE_RETURNED_METHODS -> log_object(tx, <<data>>, bot_id).tx
      [] method \in EDITED_MESSAGE_RETURNED_METHODS ->
            update_message(tx, data, bot_id, FALSE)
      [] method = "copyMessage" -> copyMessage(tx, req, data, bot_id, env)
      [] method = "getChatFullInfo" -> log_linked_then_chat(tx, data, bot_id)
      [] method = "getMe" -> log_me(tx, data)
      [] method = "getUpdates" -> getUpdates(tx, data, bot_id)
      [] OTHER -> tx

(* proxy_request, after the token check: the call is forwarded; a 200 answer
   with ok = true is logged and committed, and an exception of the logging
   is caught, which leaves the session uncommitted. *)
proxy_request(d, resp_ok, req, data, method, bot_id, env) ==
    IF resp_ok
    THEN Commit(log_telegram_request(Begin(d), req, data, method, bot_id, env))
    ELSE Begin(d)

(* A proxy that answers with an error of its own when the logging failed. *)
response_or_error(resp, tx) ==
    IF tx.raised THEN [status_code |-> 500, content |-> "Internal Server Error"]
    ELSE [status_code |-> resp.status_code, content |-> resp.content]

(* proxy_request, after the try block: Response(content=resp.content,
   status_code=resp.status_code, ...) *)
proxy_response(resp, tx) ==
    [status_code |-> resp.status_code, content |-> resp.content]

----------------------------------------------------------------------------
(* The payloads, requests and storages the model runs on *)

Variants == {"A", "B"}

(* User MaxUser is a bot account (a bot has no premium flag); variant B of a
   user carries the optional attributes. *)
UserObj(u, v) ==
    IF u = NULL THEN NoUser
    ELSE [id |-> u, first_name |-> IF v = "A" THEN "Ann" ELSE "Bob",
          last_name |-> IF v = "A" THEN NONE ELSE "Lee",
          username |-> IF v = "A" THEN NONE ELSE "bob",
          language_code |-> IF v = "A" THEN NONE ELSE "en",
          is_premium |-> IF v = "B" /\ u # MaxUser THEN "True" ELSE NONE,
          is_bot |-> u = MaxUser]

(* Variant B of a chat carries a username, which is the chat's own number. *)
ChatObj(c, v) ==
    [id |-> c, type |-> "supergroup", title |-> IF v = "A" THEN "old" ELSE "new",
     username |-> IF v = "A" THEN NULL ELSE c]

PhotoObj(f) == [file_unique_id |-> f, file_id |-> f, cls |-> "PhotoSize"]

(* Variant A is a text message, variant B a photo with a caption. *)
Msg(c, m, u, v, edited, reply) ==
    [message_id |-> m, chat |-> ChatObj(c, v), from_user |-> UserObj(u, v),
     date |-> 1, edit_date |-> IF edited THEN 2 ELSE NULL,
     message_thread_id |-> NULL,
     text |-> IF v = "A" THEN "hello" ELSE NONE,
     caption |-> IF v = "B" THEN "cap" ELSE NONE,
     has_protected_content |-> FALSE, caption_entities |-> NONE,
     photo |-> IF v = "B" THEN PhotoObj(MaxFile) ELSE NoFile,
     reply_to_message |-> reply, api_kwargs |-> EmptyTable]

OtherId(m) == IF m = 1 THEN MaxMsg ELSE 1

(* The messages of the payloads: any chat, id, sender and variant, edited or
   not, alone or (message 1 of chat 1) replying to a text message of the
   same chat. *)
Messages(edited) ==
    {Msg(c, m, u, v, edited, <<>>) :
        c \in ChatIds, m \in MsgIds, u \in {NULL} \cup UserIds, v \in Variants} \cup
    {Msg(1, 1, u, v, edited, <<Msg(1, OtherId(1), u, "A", FALSE, <<>>)>>) :
        u \in {NULL} \cup UserIds, v \in Variants}

(* Channel posts and business messages: no sender, no reply. *)
Posts(edited) ==
    {Msg(c, m, NULL, v, edited, <<>>) : c \in ChatIds, m \in MsgIds, v \in Variants}

EditedKinds == {"edited_message", "edited_channel_post", "edited_business_message"}

(* The updates: a message, an edit of one of the three kinds, or an update
   of a kind that holds no message (a poll). *)
Updates ==
    {MakeUpdate("message", m) : m \in Messages(FALSE)}
    \cup {MakeUpdate("edited_message", m) : m \in Messages(TRUE)}
    \cup {MakeUpdate(k, m) : k \in EditedKinds \ {"edited_message"}, m \in Posts(TRUE)}
    \cup {MakeUpdate("poll", Msg(1, 1, NULL, "A", FALSE, <<>>))}

(* A storage that satisfies the schema: nu users, nc chats of variant cv,
   the messages 1..nm of chat 1 (sent by user 1 if stored), all of variant
   sv, the file of the photo messages, and the links of the bots of assoc to
   all of it. *)
Storage(nu, nc, nm, sv, cv, assoc) ==
    LET sender == IF nu > 0 THEN 1 ELSE NULL
        has_file == nm > 0 /\ sv = "B"
        file == collect_entities(<<Msg(1, 1, sender, "B", FALSE, <<>>)>>).files
    IN [users |-> [u \in 1..nu |-> prepare_user(UserObj(u, sv))],
        chats |-> [c \in 1..nc |-> prepare_chat(ChatObj(c, cv))],
        messages |-> [k \in {1} \X (1..nm) |->
                        bulk_prepare_messages(Msg(1, k[2], sender, sv, FALSE, <<>>))],
        files |-> IF has_file
                  THEN [f \in DOMAIN file |-> bulk_prepare_files(file[f])]
                  ELSE EmptyTable,
        bot_messages |-> {<<b, 1, m>> : b \in assoc, m \in 1..nm},
        bot_files |-> IF has_file
                      THEN [k \in assoc \X DOMAIN file |-> [file_id |-> file[k[2]].file_id]]
                      ELSE EmptyTable]

(* The schema: the foreign keys of the six tables. *)
SchemaValid(d) ==
    /\ \A k \in DOMAIN d.messages : ~MessageFkViolation(d, k[1], d.messages[k])
    /\ \A c \in DOMAIN d.chats : ~ChatFkViolation(d, c, d.chats[c])
    /\ \A l \in d.bot_messages : <<l[2], l[3]>> \in DOMAIN d.messages
    /\ \A l \in DOMAIN d.bot_files : l[2] \in DOMAIN d.files

Storages ==
    {d \in {Storage(nu, nc, nm, sv, cv, assoc) :
                nu \in {0, MaxUser}, nc \in 0..MaxChat, nm \in 0..MaxMsg,
                sv \in Variants, cv \in Variants, assoc \in SUBSET Bots} :
        SchemaValid(d)}

(* The avatar of a chat: two files of their own. *)
Avatar ==
    [small_file_unique_id |-> MaxFile + 1, big_file_unique_id |-> MaxFile + 2,
     small_file_id |-> MaxFile + 1, big_file_id |-> MaxFile + 2]

Links == {"none", "personal", "parent"}

(* A full chat-info snapshot of chat c: variant v of its fields, chat
   MaxChat as its personal or parent chat or none, a pinned message or none,
   an avatar or none. *)
ChatSnapshot(c, v, link, pinned, photo) ==
    [id |-> c, type |-> "supergroup", title |-> ChatObj(c, v).title,
     username |-> ChatObj(c, v).username,
     personal_chat |-> IF link = "personal" THEN ChatObj(MaxChat, v) ELSE NoChat,
     parent_chat |-> IF link = "parent" THEN ChatObj(MaxChat, v) ELSE NoChat,
     pinned_message |-> [message_id |-> pinned],
     photo |-> photo, accent_color_id |-> 1]

Snapshots ==
    {ChatSnapshot(1, v, link, pinned, photo) :
        v \in Variants, link \in Links, pinned \in {NULL, 1},
        photo \in {NoPhoto, Avatar}}

(* What getMe answers: the bot account, in either variant. *)
Identities == {UserObj(MaxUser, v) : v \in Variants}

(* The destination of a copy or forward: a number, an "@handle" (the handle
   of chat h is the number h), or missing. *)
Destinations ==
    {[handle |-> FALSE, v |-> c] : c \in ChatIds \cup {NULL}}
    \cup {[handle |-> TRUE, v |-> c] : c \in ChatIds}

NoRequest ==
    [chat_id |-> [handle |-> FALSE, v |-> NULL], from_chat_id |-> NULL,
     message_id |-> NULL, message_ids |-> <<>>, message_thread_id |-> NULL,
     protect_content |-> FALSE, remove_caption |-> FALSE, caption |-> NONE,
     caption_entities |-> NONE, show_caption_above_media |-> FALSE,
     reply_markup |-> NONE]

ThreadId == 7

(* The optional parameters of the copy and forward requests. *)
CopyOptions ==
    {NoRequest,
     [NoRequest EXCEPT !.message_thread_id = ThreadId, !.protect_content = TRUE,
                       !.remove_caption = TRUE],
     [NoRequest EXCEPT !.caption = "replaced", !.caption_entities = "bold"],
     [NoRequest EXCEPT !.show_caption_above_media = TRUE],
     [NoRequest EXCEPT !.reply_markup = "keyboard"]}

(* The copyMessage requests: every destination, source and new id without
   options, every option on source 1 with the new id MaxMsg, and the
   requests and answers to chat MaxChat that lack a field. *)
CopyRequests ==
    {[req |-> [NoRequest EXCEPT !.chat_id = chat_id, !.from_chat_id = 1,
                                !.message_id = message_id],
      data |-> [message_id |-> copied_id]] :
        chat_id \in Destinations, message_id \in MsgIds, copied_id \in MsgIds}
    \cup {[req |-> [opt EXCEPT !.chat_id = chat_id, !.from_chat_id = 1,
                               !.message_id = 1],
           data |-> [message_id |-> MaxMsg]] :
        chat_id \in Destinations, opt \in CopyOptions}
    \cup {[req |-> [NoRequest EXCEPT !.chat_id = [handle |-> FALSE, v |-> MaxChat],
                                     !.from_chat_id = from_chat_id,
                                     !.message_id = message_id],
           data |-> [message_id |-> copied_id]] :
        from_chat_id \in {NULL, 1}, message_id \in {NULL, 1},
        copied_id \in {NULL, MaxMsg}}

(* The id lists of a bulk request and of its answer. *)
IdLists ==
    {[message_ids |-> <<>>, copied_ids |-> <<>>],
     [message_ids |-> <<1>>, copied_ids |-> <<MaxMsg>>],
     [message_ids |-> <<1, MaxMsg>>, copied_ids |-> <<MaxMsg, 1>>],
     [message_ids |-> <<1, MaxMsg>>, copied_ids |-> <<1>>]}

BulkOptions == {o \in CopyOptions : o.caption = NONE /\ ~o.show_caption_above_media
                                    /\ o.reply_markup = NONE}

(* The copyMessages / forwardMessages requests: every destination and id
   lists without options, the options on source 1, and the requests to chat
   MaxChat that lack the source chat. *)
BulkRequests ==
    {[req |-> [opt EXCEPT !.chat_id = chat_id, !.from_chat_id = 1,
                          !.message_ids = ids.message_ids],
      data |-> ids.copied_ids] :
        chat_id \in Destinations, ids \in IdLists, opt \in {NoRequest}}
    \cup {[req |-> [opt EXCEPT !.chat_id = chat_id, !.from_chat_id = 1,
                               !.message_ids = <<1>>],
           data |-> <<MaxMsg>>] :
        chat_id \in Destinations, opt \in BulkOptions}
    \cup {[req |-> [NoRequest EXCEPT !.chat_id = [handle |-> FALSE, v |-> MaxChat],
                                     !.message_ids = ids.message_ids],
           data |-> ids.copied_ids] : ids \in IdLists}

(* What get_chat answers for a destination: the chat of that number or of
   that handle. *)
FetchedInfo(chat_id) ==
    [id |-> chat_id.v, type |-> "channel", title |-> "new",
     username |-> IF chat_id.handle THEN chat_id.v ELSE NULL,
     personal_chat |-> NoChat, parent_chat |-> NoChat,
     pinned_message |-> NoPinned, photo |-> NoPhoto, accent_color_id |-> 1]

(* The same answer for a chat that names a chat as its parent which no
   storage holds. *)
FetchedWithParent(chat_id) ==
    [FetchedInfo(chat_id) EXCEPT !.parent_chat = ChatObj(MaxChat + 1, "A")]

(* What the environment decides during a copy or forward: which joined row
   the database lists first and, where the destination is not found and
   get_chat is called, whether it answers and what. *)
Environments(d, chat_id) ==
    {[fetch_ok |-> ok, info |-> FetchedInfo(chat_id), first |-> f] :
        f \in IF chat_id.handle THEN JoinedChatIds(d, chat_id.v) ELSE {NULL},
        ok \in IF chat_id.v # NULL
                  /\ ResolveDestination(d, chat_id, [first |-> NULL]) = NULL
               THEN BOOLEAN ELSE {TRUE}}
    \cup {[fetch_ok |-> TRUE, info |-> FetchedWithParent(chat_id), first |-> NULL] :
            x \in IF chat_id.v # NULL /\ ~chat_id.handle
                     /\ ResolveDestination(d, chat_id, [first |-> NULL]) = NULL
                  THEN {1} ELSE {}}

NoEnvironment ==
    [fetch_ok |-> FALSE, info |-> FetchedInfo([handle |-> FALSE, v |-> NULL]),
     first |-> NULL]

(* The parsed bodies of the deliveries: an update, or a JSON document that
   Update.de_json does not accept. *)
Bodies ==
    {[decodable |-> TRUE, update |-> u] : u \in Updates}
    \cup {[decodable |-> FALSE, update |-> MakeUpdate("poll", Msg(1, 1, NULL, "A", FALSE, <<>>))]}

(* BotWebhook: without redirect URL, or with one whose POST succeeds or
   fails. *)
Webhooks ==
    {[redirect_url |-> FALSE, post_ok |-> TRUE],
     [redirect_url |-> TRUE, post_ok |-> TRUE],
     [redirect_url |-> TRUE, post_ok |-> FALSE]}

(* The answers of the remote API: the result, a 200 without ok, an error. *)
Accepted == [status_code |-> 200, ok |-> TRUE, content |-> "result"]

Refusals ==
    {[status_code |-> 200, ok |-> FALSE, content |-> "not ok"],
     [status_code |-> 400, ok |-> FALSE, content |-> "Bad Request"]}

----------------------------------------------------------------------------
(* The state machine: one action per unit of work.  db is the committed
   storage; last describes the unit of work that ran last (its inputs, the
   storage it started from, what it did), prev the one before it. *)

NoUnit == [op |-> "none"]

UnitRecord(op, method, bot_id, objs, req, data, env, tx) ==
    [op |-> op, method |-> method, bot |-> bot_id, objs |-> objs, req |-> req,
     data |-> data, env |-> env, pre |-> db, raised |-> tx.raised,
     queries |-> tx.queries, fetches |-> tx.fetches, check |-> tx.check,
     writes |-> tx.db]

Init ==
    /\ db \in Storages
    /\ last = NoUnit
    /\ prev = NoUnit
    /\ units = 0

(* A unit of work ends: its writes are committed or dropped. *)
Finish(rec, tx) ==
    /\ units < MaxUnits
    /\ db' = Committed(tx)
    /\ last' = rec
    /\ units' = units + 1
    /\ UNCHANGED prev

(* The unit record with what the handler answered. *)
Delivered(rec, body, webhook, tx) ==
    rec @@ [body |-> body, webhook |-> webhook] @@ answer_update(tx, webhook)

Proxied(rec, resp, tx) == rec @@ [resp |-> resp] @@ proxy_response(resp, tx)

(* POST /webhook/{bot_id}: one update is delivered. *)
HandleUpdate ==
    \E bot_id \in Bots, body \in Bodies, webhook \in Webhooks :
        LET tx == synchronize(db, bot_id, body)
        IN Finish(Delivered(UnitRecord("handle_update", "webhook", bot_id,
                                       IF body.decodable
                                       THEN UpdateObjects(body.update) ELSE <<>>,
                                       NoRequest, body.update, NoEnvironment, tx),
                            body, webhook, tx), tx)

SendMethods == {"sendMessage"}

(* A proxied method that returns the sent message. *)
ProxySend ==
    \E bot_id \in Bots, method \in SendMethods, data \in Messages(FALSE) :
        LET tx == proxy_request(db, TRUE, NoRequest, data, method, bot_id, NoEnvironment)
        IN Finish(Proxied(UnitRecord("send", method, bot_id, <<data>>, NoRequest, data,
                                     NoEnvironment, tx), Accepted, tx), tx)

EditMethods == {"editMessageText"}

(* A proxied method that returns the edited message. *)
ProxyEdit ==
    \E bot_id \in Bots, method \in EditMethods, data \in Messages(TRUE) :
        LET tx == proxy_request(db, TRUE, NoRequest, data, method, bot_id, NoEnvironment)
        IN Finish(Proxied(UnitRecord("edit", method, bot_id, <<data>>, NoRequest, data,
                                     NoEnvironment, tx), Accepted, tx), tx)

(* A proxied copyMessage: the answer holds the id of the copy. *)
ProxyCopyMessage ==
    \E bot_id \in Bots, call \in CopyRequests :
        \E env \in Environments(db, call.req.chat_id) :
            LET tx == proxy_request(db, TRUE, call.req, call.data, "copyMessage",
                                    bot_id, env)
            IN Finish(Proxied(UnitRecord("copy", "copyMessage", bot_id, <<>>,
                                         call.req, call.data, env, tx),
                              Accepted, tx), tx)

BulkMethods == {"copyMessages", "forwardMessages"}

(* A proxied copyMessages or forwardMessages: the answer lists the new ids. *)
ProxyCopyMessages ==
    \E bot_id \in Bots, method \in BulkMethods, call \in BulkRequests :
        \E env \in Environments(db, call.req.chat_id) :
            LET tx == proxy_request(db, TRUE, call.req, call.data, method, bot_id, env)
            IN Finish(Proxied(UnitRecord("bulk", method, bot_id, <<>>, call.req,
                                         call.data, env, tx), Accepted, tx), tx)

(* A proxied call the remote API refuses: nothing is logged. *)
ProxyRefused ==
    \E bot_id \in Bots, method \in SendMethods \cup EditMethods \cup BulkMethods,
       resp \in Refusals :
        LET tx == proxy_request(db, resp.status_code = 200 /\ resp.ok, NoRequest, <<>>,
                                method, bot_id, NoEnvironment)
        IN Finish(Proxied(UnitRecord("refused", method, bot_id, <<>>, NoRequest, <<>>,
                                     NoEnvironment, tx), resp, tx), tx)

(* A proxied getMe: the answer is the bot's own account. *)
ProxyGetMe ==
    \E bot_id \in Bots, data \in Identities :
        LET tx == proxy_request(db, TRUE, NoRequest, data, "getMe", bot_id, NoEnvironment)
        IN Finish(Proxied(UnitRecord("me", "getMe", bot_id, <<>>, NoRequest, data,
                                     NoEnvironment, tx), Accepted, tx), tx)

(* A proxied getChatFullInfo: the answer is the snapshot of the chat. *)
ProxyGetChatFullInfo ==
    \E bot_id \in Bots, data \in Snapshots :
        LET tx == proxy_request(db, TRUE, NoRequest, data, "getChatFullInfo", bot_id,
                                NoEnvironment)
        IN Finish(Proxied(UnitRecord("chat_info", "getChatFullInfo", bot_id, <<>>,
                                     NoRequest, data, NoEnvironment, tx),
                          Accepted, tx), tx)

(* GET /{chat_id}/avatar: get_chat has answered with the snapshot. *)
GetChatAvatar ==
    \E bot_id \in Bots, data \in Snapshots, download_ok \in BOOLEAN :
        LET tx == get_chat_avatar(db, data, bot_id)
        IN Finish(UnitRecord("avatar", "get_chat", bot_id, <<>>, NoRequest, data,
                             NoEnvironment, tx)
                  @@ avatar_response(tx, data, download_ok), tx)

Next ==
    \/ HandleUpdate
    \/ ProxySend
    \/ ProxyEdit
    \/ ProxyCopyMessage
    \/ ProxyCopyMessages
    \/ ProxyRefused
    \/ ProxyGetMe
    \/ ProxyGetChatFullInfo
    \/ GetChatAvatar

Spec == Init /\ [][Next]_vars

----------------------------------------------------------------------------
(* Polling: a proxied getUpdates answers with a list of updates. *)

MaxBatch == 3

(* Sightings and edits of message 1 of chat 1, by user 1 or anonymous, and an
   edit of the other message of the chat. *)
BatchUpdates ==
    {MakeUpdate("message", Msg(1, 1, 1, "A", FALSE, <<>>))}
    \cup {MakeUpdate("edited_message", Msg(1, 1, u, v, TRUE, <<>>)) :
             u \in {NULL} \cup UserIds, v \in Variants}
    \cup {MakeUpdate("edited_channel_post", Msg(1, 1, NULL, "B", TRUE, <<>>))}
    \cup {MakeUpdate("edited_message", Msg(1, OtherId(1), 1, "A", TRUE, <<>>))}

Batches == UNION {[1..n -> BatchUpdates] : n \in 1..MaxBatch}

ProxyGetUpdates ==
    \E bot_id \in Bots, data \in Batches :
        LET tx == proxy_request(db, TRUE, NoRequest, data, "getUpdates", bot_id,
                                NoEnvironment)
        IN Finish(Proxied(UnitRecord("updates", "getUpdates", bot_id,
                                     all_update_objects(data), NoRequest, data,
                                     NoEnvironment, tx), Accepted, tx), tx)

NextPoll == ProxyGetUpdates

SpecPoll == Init /\ [][NextPoll]_vars

----------------------------------------------------------------------------
(* The resolver alone: check_entities is called with any key sets on any
   storage. *)

ResolverInputs ==
    {[bot |-> b, chat_ids |-> cs, user_ids |-> us, messages |-> ms, file_ids |-> fs] :
        b \in Bots, cs \in SUBSET ChatIds, us \in SUBSET UserIds,
        ms \in SUBSET MsgKeys, fs \in SUBSET FileIds}

Resolve ==
    \E in \in ResolverInputs :
        /\ units < MaxUnits
        /\ last' = [op |-> "check_entities", in |-> in, pre |-> db,
                    check |-> check_entities(db, in.chat_ids, in.user_ids,
                                             in.messages, in.file_ids, in.bot)]
        /\ units' = units + 1
        /\ UNCHANGED <<db, prev>>

NextResolver == Resolve

SpecResolver == Init /\ [][NextResolver]_vars

----------------------------------------------------------------------------
(* Two units of work, one after the other, that sight message 1 of chat 1:
   a webhook delivery or a proxied sendMessage. *)

MaxSightings == 2

Sighted == {Msg(1, 1, u, v, FALSE, <<>>) : u \in {NULL} \cup UserIds, v \in Variants}

FinishSighting(rec, tx) ==
    /\ units < MaxSightings
    /\ db' = Committed(tx)
    /\ last' = rec
    /\ prev' = last
    /\ units' = units + 1

SightByWebhook ==
    \E bot_id \in Bots, m \in Sighted :
        LET update == MakeUpdate("message", m)
            tx == handle_update(db, bot_id, update)
        IN FinishSighting(UnitRecord("handle_update", "webhook", bot_id,
                                     UpdateObjects(update), NoRequest, update,
                                     NoEnvironment, tx), tx)

SightBySend ==
    \E bot_id \in Bots, data \in Sighted :
        LET tx == proxy_request(db, TRUE, NoRequest, data, "sendMessage", bot_id,
                                NoEnvironment)
        IN FinishSighting(UnitRecord("send", "sendMessage", bot_id, <<data>>,
                                     NoRequest, data, NoEnvironment, tx), tx)

NextTwice ==
    \/ SightByWebhook
    \/ SightBySend

SpecTwice == Init /\ [][NextTwice]_vars

----------------------------------------------------------------------------
(* Two units of work that overlap: each reads (the resolver's statement, or
   the lookup of the source and the destination of a copy) and later writes
   and commits, and the other unit may commit in between.  prev is the first
   unit, last the second; storages hold text messages. *)

RaceStorages ==
    {d \in Storages : \A k \in DOMAIN d.messages : d.messages[k].message_type = "text"}

RaceDestinations == {[handle |-> h, v |-> MaxChat] : h \in BOOLEAN}

RaceMessages == {Msg(MaxChat, MaxMsg, u, "A", FALSE, <<>>) : u \in {NULL} \cup UserIds}

RaceUnit(op, method, bot_id, objs, req, data, env) ==
    [op |-> op, method |-> method, bot |-> bot_id, objs |-> objs, req |-> req,
     data |-> data, env |-> env]

(* The unit after its read on the storage d: what it found. *)
Seen(u, d) ==
    u @@ [phase |-> "read", pre |-> d,
          seen |-> IF u.op = "copy"
                   THEN [src_found |-> <<u.req.from_chat_id, u.req.message_id>>
                                          \in DOMAIN d.messages,
                         found |-> ResolveDestination(d, u.req.chat_id, u.env),
                         check |-> NoCheck]
                   ELSE [src_found |-> FALSE, found |-> NULL,
                         check |-> check_entities(
                                       d, DOMAIN collect_entities(u.objs).chats,
                                       DOMAIN collect_entities(u.objs).users,
                                       DOMAIN collect_entities(u.objs).messages,
                                       DOMAIN collect_entities(u.objs).files, u.bot)]]

(* The writes and the commit of a unit that has read, on the storage d as it
   is by then. *)
RaceTx(d, r) ==
    IF r.op = "copy"
    THEN IF r.seen.src_found
         THEN Commit(CopyOne([Begin(d) EXCEPT !.queries = 1],
                             <<r.req.from_chat_id, r.req.message_id>>, r.req,
                             r.data.message_id, r.seen.found, r.bot, r.env))
         ELSE [Begin(d) EXCEPT !.queries = 1]
    ELSE Commit(resolve(Begin(d), collect_entities(r.objs), r.seen.check, r.bot).tx)

(* The answer of the finished unit. *)
RaceAnswer(r, tx) ==
    IF r.op = "handle_update"
    THEN answer_update(tx, [redirect_url |-> FALSE, post_ok |-> TRUE])
    ELSE proxy_response(Accepted, tx)

Done(r, tx, n) ==
    [r EXCEPT !.phase = "done"]
    @@ [raised |-> tx.raised, order |-> n, writes |-> tx.db]
    @@ RaceAnswer(r, tx)

Slot(i) == IF i = 1 THEN prev ELSE last

SetSlot(i, r) ==
    IF i = 1 THEN prev' = r /\ UNCHANGED last ELSE last' = r /\ UNCHANGED prev

InitRace ==
    /\ db \in RaceStorages
    /\ last = NoUnit
    /\ prev = NoUnit
    /\ units = 0

StartRead(i, u) ==
    /\ Slot(i).op = "none"
    /\ SetSlot(i, Seen(u, db))
    /\ UNCHANGED <<db, units>>

(* A proxied copyMessage of message 1 of chat 1 reads its source and its
   destination; the remote API gave the copy of unit i the new id i. *)
RaceReadCopy ==
    \E i \in {1, 2}, bot_id \in Bots, chat_id \in RaceDestinations :
        \E env \in {e \in Environments(db, chat_id) :
                        e.fetch_ok /\ e.info = FetchedInfo(chat_id)} :
            StartRead(i, RaceUnit("copy", "copyMessage", bot_id, <<>>,
                                  [NoRequest EXCEPT !.chat_id = chat_id,
                                                    !.from_chat_id = 1,
                                                    !.message_id = 1],
                                  [message_id |-> i], env))

(* A proxied sendMessage or a webhook delivery runs the resolver. *)
RaceReadSighting ==
    \E i \in {1, 2}, bot_id \in Bots, m \in RaceMessages, op \in {"send", "handle_update"} :
        StartRead(i, RaceUnit(op, IF op = "send" THEN "sendMessage" ELSE "webhook",
                              bot_id, <<m>>, NoRequest, m, NoEnvironment))

(* A unit that has read writes and commits, or fails. *)
RaceWrite ==
    \E i \in {1, 2} :
        /\ Slot(i).op # "none"
        /\ Slot(i).phase = "read"
        /\ db' = Committed(RaceTx(db, Slot(i)))
        /\ SetSlot(i, Done(Slot(i), RaceTx(db, Slot(i)), units + 1))
        /\ units' = units + 1

NextRace ==
    \/ RaceReadCopy
    \/ RaceReadSighting
    \/ RaceWrite

SpecRace == InitRace /\ [][NextRace]_vars

----------------------------------------------------------------------------
(* The reconciler alone: log_object's loop and inserts on a resolver answer
   that is given.  The answer describes a storage `view`, one row per key of
   the payload with its existence and link flags; it is truthful when view
   is the storage the inserts run on. *)

answer_rows(view, e, bot_id) ==
    SelectFrom(DOMAIN e.chats,
        LAMBDA c : ResultRow(c, NULL, NULL, NULL, c \in DOMAIN view.chats, "null", CHAT))
    (+) SelectFrom(DOMAIN e.users,
        LAMBDA u : ResultRow(NULL, u, NULL, NULL, u \in DOMAIN view.users, "null", USER))
    (+) SelectFrom(DOMAIN e.messages,
        LAMBDA k : ResultRow(k[1], NULL, k[2], NULL, k \in DOMAIN view.messages,
                             SqlBool(<<bot_id, k[1], k[2]>> \in view.bot_messages),
                             MESSAGE))
    (+) SelectFrom(DOMAIN e.files,
        LAMBDA f : ResultRow(NULL, NULL, NULL, f, f \in DOMAIN view.files,
                             SqlBool(<<bot_id, f>> \in DOMAIN view.bot_files), FILE))

Answer(view, e, bot_id) ==
    [raised |-> FALSE, queries |-> 1, rows |-> answer_rows(view, e, bot_id)]

Reconciled(m, bot_id, view, tx) ==
    [op |-> "log_object", bot |-> bot_id, objs |-> <<m>>, pre |-> db, view |-> view,
     new |-> partition_rows(tx.check.rows), raised |-> tx.raised,
     stmts |-> tx.stmts, writes |-> tx.db]

InitReconcile == Init

(* log_object on one message, the resolver having answered about view. *)
Reconcile ==
    \E bot_id \in Bots, m \in Messages(FALSE), view \in {db, EmptyDb} :
        /\ units < MaxUnits
        /\ last' = Reconciled(m, bot_id, view,
                              resolve(Begin(db), collect_entities(<<m>>),
                                      Answer(view, collect_entities(<<m>>), bot_id),
                                      bot_id).tx)
        /\ units' = units + 1
        /\ UNCHANGED <<db, prev>>

NextReconcile == Reconcile

SpecReconcile == InitReconcile /\ [][NextReconcile]_vars

----------------------------------------------------------------------------
(* Two log_object calls that overlap, each on a resolver answer that was
   true of the storage when the call read it. *)

RaceSightings ==
    {Msg(MaxChat, MaxMsg, u, v, FALSE, <<>>) : u \in {NULL} \cup UserIds, v \in Variants}

SeenAnswered(u, d) ==
    [Seen(u, d) EXCEPT !.seen.check = Answer(d, collect_entities(u.objs), u.bot)]

(* A proxied sendMessage or a webhook delivery reads. *)
RaceReadAnswered ==
    \E i \in {1, 2}, bot_id \in Bots, m \in RaceSightings, op \in {"send", "handle_update"} :
        /\ Slot(i).op = "none"
        /\ SetSlot(i, SeenAnswered(RaceUnit(op, IF op = "send" THEN "sendMessage"
                                                               ELSE "webhook",
                                            bot_id, <<m>>, NoRequest, m, NoEnvironment),
                                   db))
        /\ UNCHANGED <<db, units>>

NextRaceAnswered ==
    \/ RaceReadAnswered
    \/ RaceWrite

SpecRaceAnswered == InitRace /\ [][NextRaceAnswered]_vars

----------------------------------------------------------------------------
(* The bot registry: which user of the service holds which role on which
   bot.  A registry is the set of Telegram accounts stored for the bots, the
   set of registered bots and the links (user, bot) -> role. *)

MaxAppUser == 3
MaxCalls == 5
MAX_USER_BOTS == 2
MAX_USER_BOT_LINKS == 3

OWNER == "owner"
VIEWER == "viewer"

AppUsers == 1..MaxAppUser

(* The users whose role is ADMIN or GOD. *)
Admins == {MaxAppUser}

EmptyRegistry == [accounts |-> {}, bots |-> {}, links |-> [k \in {} |-> VIEWER]]

LinksOf(reg, bot_id) == {k \in DOMAIN reg.links : k[2] = bot_id}

OwnersOf(reg, bot_id) == {k[1] : k \in {l \in LinksOf(reg, bot_id) : reg.links[l] = OWNER}}

get_userbot_mapping(reg, bot_id, user_id) == <<user_id, bot_id>> \in DOMAIN reg.links

get_user_bots_count(reg, user_id) ==
    Cardinality({k \in DOMAIN reg.links : k[1] = user_id})

get_bot_users_count(reg, bot_id) == Cardinality(LinksOf(reg, bot_id))

Answered(reg, status_code) == [reg |-> reg, status_code |-> status_code]

(* remove_extra_bot_links: all but limit links of the bot are deleted; kept
   is the set of links the ordering by updated_at leaves. *)
KeepChoices(reg, bot_id, limit) ==
    {kept \in SUBSET LinksOf(reg, bot_id) :
        Cardinality(kept) = IF get_bot_users_count(reg, bot_id) < limit
                            THEN get_bot_users_count(reg, bot_id) ELSE limit}

remove_extra_bot_links(reg, bot_id, kept) ==
    [reg EXCEPT !.links = [k \in (DOMAIN reg.links \ LinksOf(reg, bot_id)) \cup kept |->
                              reg.links[k]]]

AddLink(reg, user_id, bot_id, role) ==
    [reg EXCEPT !.links = [k \in DOMAIN reg.links \cup {<<user_id, bot_id>>} |->
                              IF k = <<user_id, bot_id>> THEN role ELSE reg.links[k]]]

(* create_or_transfer_bot, the loop over the bot's links: the caller's link
   becomes OWNER, every other OWNER becomes VIEWER. *)
take_over(reg, bot_id, user_id) ==
    [reg EXCEPT !.links = [k \in DOMAIN reg.links |->
                              IF k[2] # bot_id THEN reg.links[k]
                              ELSE IF k[1] = user_id THEN OWNER
                              ELSE VIEWER]]

StoreBot(reg, bot_id) ==
    [reg EXCEPT !.accounts = @ \cup {bot_id}, !.bots = @ \cup {bot_id}]

(* create_or_transfer_bot, the account of the bot is stored already. *)
transfer_bot(reg, current_user, me, kept) ==
    IF get_userbot_mapping(reg, me, current_user)
    THEN Answered(StoreBot(take_over(reg, me, current_user), me), 200)
    ELSE IF get_user_bots_count(reg, current_user) >= MAX_USER_BOTS
    THEN Answered(reg, 403)
    ELSE Answered(StoreBot(AddLink(remove_extra_bot_links(take_over(reg, me, current_user),
                                                          me, kept),
                                   current_user, me, OWNER), me), 200)

(* POST /bots: the caller registers the bot of the token or takes it over. *)
create_or_transfer_bot(reg, current_user, me, get_me_ok, kept) ==
    IF ~get_me_ok THEN Answered(reg, 400)
    ELSE IF me \in reg.accounts THEN transfer_bot(reg, current_user, me, kept)
    ELSE IF get_user_bots_count(reg, current_user) >= MAX_USER_BOTS
    THEN Answered(reg, 403)
    ELSE Answered(StoreBot(AddLink(remove_extra_bot_links(reg, me, kept),
                                   current_user, me, OWNER), me), 200)

(* add_bot_user, the last step: when OWNER was granted to a user who had a
   link, the other OWNER is looked up (scalar_one_or_none) and made VIEWER. *)
demote_other_owner(reg, bot_id, target, role, existing_mapping) ==
    IF ~(role = OWNER /\ existing_mapping) THEN Answered(reg, 200)
    ELSE IF Cardinality(OwnersOf(reg, bot_id) \ {target}) > 1 THEN Answered(reg, 500)
    ELSE Answered(take_over(reg, bot_id, target), 200)

(* add_bot_user, the target found and allowed. *)
set_bot_role(reg, bot_id, target, role) ==
    IF get_userbot_mapping(reg, bot_id, target)
    THEN IF reg.links[<<target, bot_id>>] = role THEN Answered(reg, 409)
         ELSE demote_other_owner(AddLink(reg, target, bot_id, role), bot_id, target,
                                 role, TRUE)
    ELSE IF get_user_bots_count(reg, target) >= MAX_USER_BOTS THEN Answered(reg, 403)
    ELSE IF get_bot_users_count(reg, bot_id) >= MAX_USER_BOT_LINKS THEN Answered(reg, 403)
    ELSE demote_other_owner(AddLink(reg, target, bot_id, role), bot_id, target,
                            role, FALSE)

(* PUT /bots/{bot_id}/users: target is the user the e-mail or username of
   the body names, NULL if there is none. *)
add_bot_user(reg, bot_id, current_user, target, is_banned, role) ==
    IF bot_id \notin reg.bots
    THEN Answered(reg, IF current_user \in Admins THEN 404 ELSE 403)
    ELSE IF current_user \notin Admins /\ current_user \notin OwnersOf(reg, bot_id)
    THEN Answered(reg, 403)
    ELSE IF target = NULL THEN Answered(reg, 404)
    ELSE IF current_user = target /\ current_user \notin Admins THEN Answered(reg, 400)
    ELSE IF is_banned THEN Answered(reg, 400)
    ELSE set_bot_role(reg, bot_id, target, role)

(* DELETE /bots/{bot_id}/users/{user_id} *)
delete_bot_user(reg, bot_id, user_id, current_user) ==
    IF ~get_userbot_mapping(reg, bot_id, user_id)
    THEN Answered(reg, IF current_user \in Admins THEN 404 ELSE 403)
    ELSE IF reg.links[<<user_id, bot_id>>] = OWNER
    THEN Answered(reg, IF current_user # user_id /\ current_user \notin Admins
                       THEN 403 ELSE 409)
    ELSE IF /\ user_id # current_user
            /\ current_user \notin Admins
            /\ current_user \notin OwnersOf(reg, bot_id)
    THEN Answered(reg, 403)
    ELSE Answered([reg EXCEPT !.links = [k \in DOMAIN reg.links \ {<<user_id, bot_id>>} |->
                                            reg.links[k]]], 204)

InitRegistry ==
    /\ db = EmptyRegistry
    /\ last = NoUnit
    /\ prev = NoUnit
    /\ units = 0

(* A call ends: an HTTPException leaves the registry as it was. *)
Called(op, bot_id, current_user, target, role, answer) ==
    /\ units < MaxCalls
    /\ db' = answer.reg
    /\ last' = [op |-> op, bot |-> bot_id, current_user |-> current_user,
                target |-> target, role |-> role, pre |-> db,
                status_code |-> answer.status_code]
    /\ units' = units + 1
    /\ UNCHANGED prev

CreateOrTransferBot ==
    \E current_user \in AppUsers, me \in Bots, get_me_ok \in BOOLEAN :
        \E kept \in KeepChoices(db, me, MAX_USER_BOT_LINKS - 1) :
            Called("create_or_transfer_bot", me, current_user, current_user, OWNER,
                   create_or_transfer_bot(db, current_user, me, get_me_ok, kept))

AddBotUser ==
    \E bot_id \in Bots, current_user \in AppUsers, target \in {NULL} \cup AppUsers,
       is_banned \in BOOLEAN, role \in {OWNER, VIEWER} :
        Called("add_bot_user", bot_id, current_user, target, role,
               add_bot_user(db, bot_id, current_user, target, is_banned, role))

DeleteBotUser ==
    \E bot_id \in Bots, user_id \in AppUsers, current_user \in AppUsers :
        Called("delete_bot_user", bot_id, current_user, user_id, VIEWER,
               delete_bot_user(db, bot_id, user_id, current_user))

NextRegistry ==
    \/ CreateOrTransferBot
    \/ AddBotUser
    \/ DeleteBotUser

SpecRegistry == InitRegistry /\ [][NextRegistry]_vars

----------------------------------------------------------------------------
(* The extractor alone, on object graphs: a payload is a heap of objects
   with identity (the node number is id(obj)), each of a class, with a key
   and with the objects its values, items or public attributes hold, in the
   order the walk visits them.  Objects may be shared and may lie on
   cycles. *)

MaxNode == 3
MaxRuns == 2

Nodes == 1..MaxNode

KidLists ==
    {<<>>} \cup {<<a>> : a \in Nodes} \cup {<<a, b>> : a \in Nodes, b \in Nodes}

(* A user, a chat, two photo sizes, an object of a class that
   FILE_TO_TYPE_MAPPING does not list and that has file_unique_id and
   file_id (telegram.File), a message or a list with up to two children. *)
NodeShapes ==
    {[cls |-> "User", key |-> 1, kids |-> <<>>],
     [cls |-> "Chat", key |-> 1, kids |-> <<>>],
     [cls |-> "PhotoSize", key |-> 1, kids |-> <<>>],
     [cls |-> "PhotoSize", key |-> 2, kids |-> <<>>],
     [cls |-> "File", key |-> 1, kids |-> <<>>]}
    \cup {[cls |-> "Message", key |-> <<1, 1>>, kids |-> k] : k \in KidLists}
    \cup {[cls |-> "list", key |-> NULL, kids |-> k] : k \in KidLists}

Heaps == [Nodes -> NodeShapes]

(* A walker whose default argument is one set shared by all calls. *)
shared_default_seen(leftover) == leftover

(* if seen is None: seen = set() -- every call without the argument starts
   with a set of its own, whatever an earlier call left behind. *)
initial_seen(leftover) == {}

StartWalk(leftover) ==
    [seen |-> initial_seen(leftover), found |-> <<>>, expanded |-> <<>>]

(* A walker that tracks the objects of the current path only: it ends on
   cycles, and expands an object once per path that leads to it. *)
RECURSIVE walk_per_path(_, _, _, _)
RECURSIVE kids_per_path(_, _, _, _, _)
walk_per_path(heap, obj, classes, st) ==
    IF obj \in st.seen THEN st
    ELSE [kids_per_path(heap, heap[obj].kids, 1, classes,
                        [seen |-> st.seen \cup {obj},
                         found |-> IF heap[obj].cls \in classes
                                   THEN Append(st.found, obj) ELSE st.found,
                         expanded |-> Append(st.expanded, obj)])
             EXCEPT !.seen = st.seen]

kids_per_path(heap, kids, i, classes, st) ==
    IF i > Len(kids) THEN st
    ELSE kids_per_path(heap, kids, i + 1, classes,
                       walk_per_path(heap, kids[i], classes, st))

(* find_instances / find_objects_with_attributes: an object whose id is in
   seen returns nothing; otherwise it is added to seen, reported if it
   passes the test (isinstance, or hasattr of both names), and its children
   are walked in order with the same seen set. *)
RECURSIVE walk(_, _, _, _)
RECURSIVE walk_children(_, _, _, _, _)
walk(heap, obj, classes, st) ==
    IF obj \in st.seen THEN st
    ELSE walk_children(heap, heap[obj].kids, 1, classes,
                       [seen |-> st.seen \cup {obj},
                        found |-> IF heap[obj].cls \in classes
                                  THEN Append(st.found, obj) ELSE st.found,
                        expanded |-> Append(st.expanded, obj)])

walk_children(heap, kids, i, classes, st) ==
    IF i > Len(kids) THEN st
    ELSE walk_children(heap, kids, i + 1, classes, walk(heap, kids[i], classes, st))

(* The classes that have both file_unique_id and file_id. *)
FileShaped == {"PhotoSize", "File"}

(* deduplicate on the nodes found: key -> the first node with it. *)
first_by_key(heap, found) == deduplicate(found, LAMBDA n : heap[n].key)

(* collect_entities, the loop over unique_files: the objects of a class
   FILE_TO_TYPE_MAPPING does not list are skipped. *)
typed_files(heap, unique_files) ==
    [k \in {f \in DOMAIN unique_files :
                get_file_type(heap[unique_files[f]]) # NONE} |-> unique_files[k]]

(* collect_entities on the object root: four walks, each a call without
   the seen argument; the maps are key -> node.  leftover is the seen set
   the last walk before this call ended with. *)
collected(heap, users, chats, messages, files) ==
    [op |-> "collect_entities",
     users |-> first_by_key(heap, users.found),
     chats |-> first_by_key(heap, chats.found),
     messages |-> first_by_key(heap, messages.found),
     files |-> typed_files(heap, first_by_key(heap, files.found)),
     walks |-> <<users, chats, messages, files>>]

collect_three(heap, root, users, chats, messages) ==
    collected(heap, users, chats, messages,
              walk(heap, root, FileShaped, StartWalk(messages.seen)))

collect_two(heap, root, users, chats) ==
    collect_three(heap, root, users, chats,
                  walk(heap, root, {"Message"}, StartWalk(chats.seen)))

collect_one(heap, root, users) ==
    collect_two(heap, root, users, walk(heap, root, {"Chat"}, StartWalk(users.seen)))

collect_entities_graph(heap, root, leftover) ==
    collect_one(heap, root, walk(heap, root, {"User"}, StartWalk(leftover)))

(* db holds the payload (the object 1 of a heap); each step is one call of
   collect_entities on it; last is the result of the latest call, prev of
   the one before. *)
InitExtract ==
    /\ db \in Heaps
    /\ last = NoUnit
    /\ prev = NoUnit
    /\ units = 0

Extract ==
    /\ units < MaxRuns
    /\ last' = collect_entities_graph(db, 1, IF last = NoUnit THEN {}
                                              ELSE last.walks[4].seen)
    /\ prev' = last
    /\ units' = units + 1
    /\ UNCHANGED db

NextExtract == Extract

SpecExtract == InitExtract /\ [][NextExtract]_vars

----------------------------------------------------------------------------
(* Properties.  Helpers first. *)

(* The number of result rows that pass the test. *)
CountRows(rows, test(_)) ==
    LET hit == {r \in BagToSet(rows) : test(r)}
    IN BagCardinality([r \in hit |-> rows[r]])

(* The unit of work rec, run again on the storage d. *)
RunUnit(d, rec) ==
    IF rec.op = "handle_update" THEN synchronize(d, rec.bot, rec.body)
    ELSE IF rec.op = "avatar" THEN get_chat_avatar(d, rec.data, rec.bot)
    ELSE proxy_request(d, rec.op # "refused", rec.req, rec.data, rec.method,
                       rec.bot, rec.env)

(* The columns of a message row an edit is to overwrite. *)
Content(row) ==
    [message_type |-> row.message_type, text |-> row.text, caption |-> row.caption,
     has_protected_content |-> row.has_protected_content,
     other_data |-> row.other_data]

(* Every row of the four entity tables of pre is in now, with all its
   fields as they were. *)
RowsKept(pre, now) ==
    /\ \A k \in DOMAIN pre.users : k \in DOMAIN now.users /\ now.users[k] = pre.users[k]
    /\ \A k \in DOMAIN pre.chats : k \in DOMAIN now.chats /\ now.chats[k] = pre.chats[k]
    /\ \A k \in DOMAIN pre.messages :
          k \in DOMAIN now.messages /\ now.messages[k] = pre.messages[k]
    /\ \A k \in DOMAIN pre.files : k \in DOMAIN now.files /\ now.files[k] = pre.files[k]

(* C1: two units of work run one after the other that both committed and
   whose payloads both contain an entity with key k leave exactly one row
   with key k in the table of its kind, from any storage.  (A table is a
   function of its key: what can fail is that there is no row.) *)
C1_IdempotentInsert ==
    (prev.op # "none" /\ last.op # "none" /\ ~prev.raised /\ ~last.raised) =>
        LET a == collect_entities(prev.objs)
            b == collect_entities(last.objs)
        IN /\ DOMAIN a.users \cap DOMAIN b.users \subseteq DOMAIN db.users
           /\ DOMAIN a.chats \cap DOMAIN b.chats \subseteq DOMAIN db.chats
           /\ DOMAIN a.messages \cap DOMAIN b.messages \subseteq DOMAIN db.messages
           /\ DOMAIN a.files \cap DOMAIN b.files \subseteq DOMAIN db.files

(* C2: a unit of work of bot B that sights a stored message or file B is
   not linked to creates the link (B, E) and no entity row; a later sighting
   of E by B raises no error and leaves the one link. *)
C2_AssociationOnce ==
    last.op # "none" =>
        LET e == collect_entities(last.objs)
            B == last.bot
        IN /\ \A k \in DOMAIN e.messages \cap DOMAIN last.pre.messages :
                 <<B, k[1], k[2]>> \notin last.pre.bot_messages =>
                    /\ <<B, k[1], k[2]>> \in db.bot_messages
                    /\ DOMAIN db.messages = DOMAIN last.pre.messages
           /\ \A f \in DOMAIN e.files \cap DOMAIN last.pre.files :
                 <<B, f>> \notin DOMAIN last.pre.bot_files =>
                    /\ <<B, f>> \in DOMAIN db.bot_files
                    /\ DOMAIN db.files = DOMAIN last.pre.files
           /\ (prev.op # "none" /\ prev.bot = B /\ ~prev.raised) =>
                 \A k \in DOMAIN e.messages \cap DOMAIN last.pre.messages :
                    k \in DOMAIN collect_entities(prev.objs).messages =>
                        /\ ~last.raised
                        /\ <<B, k[1], k[2]>> \in db.bot_messages

(* C3: check_entities returns, in one query, for each input key of each
   kind exactly one row with that key; its exists flag is true iff the key
   is stored, its bot flag (messages, files) iff the current bot is linked
   to the key. *)
C3_ResolverPerKey ==
    last.op = "check_entities" =>
        LET c == last.check
            in == last.in
            d == last.pre
            rows == BagToSet(c.rows)
        IN /\ ~c.raised
           /\ c.queries = 1
           /\ \A k \in in.chat_ids :
                 /\ CountRows(c.rows, LAMBDA r : r.type = CHAT /\ r.chat_id = k) = 1
                 /\ \A r \in rows : (r.type = CHAT /\ r.chat_id = k) =>
                        (r.exists <=> k \in DOMAIN d.chats)
           /\ \A k \in in.user_ids :
                 /\ CountRows(c.rows, LAMBDA r : r.type = USER /\ r.user_id = k) = 1
                 /\ \A r \in rows : (r.type = USER /\ r.user_id = k) =>
                        (r.exists <=> k \in DOMAIN d.users)
           /\ \A k \in in.messages :
                 /\ CountRows(c.rows, LAMBDA r : /\ r.type = MESSAGE
                                                /\ r.chat_id = k[1]
                                                /\ r.message_id = k[2]) = 1
                 /\ \A r \in rows :
                        (r.type = MESSAGE /\ r.chat_id = k[1] /\ r.message_id = k[2]) =>
                            /\ r.exists <=> k \in DOMAIN d.messages
                            /\ r.bot_relation = "true"
                                   <=> <<in.bot, k[1], k[2]>> \in d.bot_messages
           /\ \A k \in in.file_ids :
                 /\ CountRows(c.rows, LAMBDA r : r.type = FILE /\ r.file_unique_id = k) = 1
                 /\ \A r \in rows : (r.type = FILE /\ r.file_unique_id = k) =>
                        /\ r.exists <=> k \in DOMAIN d.files
                        /\ r.bot_relation = "true" <=> <<in.bot, k>> \in DOMAIN d.bot_files

(* C4: check_entities returns as many rows as it is given keys, over the
   four kinds; a kind with no key contributes no row and no error. *)
C4_ResolverRowCount ==
    last.op = "check_entities" =>
        LET c == last.check
            in == last.in
        IN /\ ~c.raised
           /\ BagCardinality(c.rows) =
                 Cardinality(in.chat_ids) + Cardinality(in.user_ids)
                 + Cardinality(in.messages) + Cardinality(in.file_ids)
           /\ in.chat_ids = {} => CountRows(c.rows, LAMBDA r : r.type = CHAT) = 0
           /\ in.user_ids = {} => CountRows(c.rows, LAMBDA r : r.type = USER) = 0
           /\ in.messages = {} => CountRows(c.rows, LAMBDA r : r.type = MESSAGE) = 0
           /\ in.file_ids = {} => CountRows(c.rows, LAMBDA r : r.type = FILE) = 0

(* The storages that differ from d only in the links of bots other than B. *)
OtherTenants(d, B) ==
    {[d EXCEPT !.bot_messages = {l \in @ : l[1] = B} \cup X,
               !.bot_files = [l \in {x \in DOMAIN @ : x[1] = B} \cup Y |->
                                 IF l \in DOMAIN @ THEN @[l] ELSE [file_id |-> l[2]]]] :
        X \in SUBSET {<<b, k[1], k[2]>> : b \in Bots \ {B}, k \in DOMAIN d.messages},
        Y \in SUBSET ((Bots \ {B}) \X DOMAIN d.files)}

(* The bot flags of the resolver's answer, per message or file key. *)
BotFlags(rows) ==
    {[type |-> r.type, chat_id |-> r.chat_id, message_id |-> r.message_id,
      file_unique_id |-> r.file_unique_id, bot_relation |-> r.bot_relation] :
        r \in {x \in BagToSet(rows) : x.type \in {MESSAGE, FILE}}}

(* What a unit of work added to the storage it started from. *)
Inserted(pre, now) ==
    [users |-> [k \in DOMAIN now.users \ DOMAIN pre.users |-> now.users[k]],
     chats |-> [k \in DOMAIN now.chats \ DOMAIN pre.chats |-> now.chats[k]],
     messages |-> [k \in DOMAIN now.messages \ DOMAIN pre.messages |-> now.messages[k]],
     files |-> [k \in DOMAIN now.files \ DOMAIN pre.files |-> now.files[k]],
     bot_messages |-> now.bot_messages \ pre.bot_messages,
     bot_files |-> DOMAIN now.bot_files \ DOMAIN pre.bot_files]

(* C5: on two storages that differ only in the links of bots other than B,
   a unit of work of B on the same payload gets the same bot flags from the
   resolver and performs the same inserts; it writes links of B only and
   leaves the links of the other bots as they are. *)
C5_CrossTenantIsolation ==
    last.op \in {"handle_update", "send", "edit"} =>
        /\ \A alt \in OtherTenants(last.pre, last.bot) :
              LET tx == RunUnit(alt, last)
              IN /\ BotFlags(tx.check.rows) = BotFlags(last.check.rows)
                 /\ Inserted(alt, Committed(tx)) = Inserted(last.pre, db)
        /\ \A l \in db.bot_messages \ last.pre.bot_messages : l[1] = last.bot
        /\ \A l \in DOMAIN db.bot_files \ DOMAIN last.pre.bot_files : l[1] = last.bot
        /\ \A l \in last.pre.bot_messages : l[1] # last.bot => l \in db.bot_messages
        /\ \A l \in DOMAIN last.pre.bot_files :
              l[1] # last.bot =>
                 l \in DOMAIN db.bot_files /\ db.bot_files[l] = last.pre.bot_files[l]

(* The units of work whose only writer is log_object. *)
ReconcileOnly(rec) ==
    \/ rec.op \in {"send", "bulk"}
    \/ /\ rec.op = "handle_update"
       /\ rec.data.edited_message = <<>>
       /\ rec.data.edited_channel_post = <<>>
       /\ rec.data.edited_business_message = <<>>

(* C6: log_object leaves every stored user, chat, message and file row
   unchanged in all of its fields, whatever the payload carries under the
   same key. *)
C6_ReconcilerInsertOnly ==
    ReconcileOnly(last) => RowsKept(last.pre, db)

(* C6, its case: a committed sendMessage whose message, chat and sender are
   stored with other content than the payload's, and found by the resolver. *)
C6_Witness ==
    /\ last.op = "send"
    /\ ~last.raised
    /\ <<last.data.chat.id, last.data.message_id>> \in DOMAIN last.pre.messages
    /\ bulk_prepare_messages(last.data)
          # last.pre.messages[<<last.data.chat.id, last.data.message_id>>]
    /\ last.data.from_user.id \in DOMAIN last.pre.users
    /\ prepare_user(last.data.from_user) # last.pre.users[last.data.from_user.id]
    /\ prepare_chat(last.data.chat) # last.pre.chats[last.data.chat.id]
    /\ \E r \in BagToSet(last.check.rows) :
          r.type = MESSAGE /\ r.exists /\ r.chat_id = last.data.chat.id
          /\ r.message_id = last.data.message_id

(* The edited message of an update, as handle_update picks it. *)
EditedOf(update) ==
    IF update.edited_message # <<>> THEN update.edited_message
    ELSE IF update.edited_channel_post # <<>> THEN update.edited_channel_post
    ELSE update.edited_business_message

(* C7: after handle_update has processed an update that reports an edited
   message with key (c, m), the row (c, m) exists and its kind, text,
   caption, content flags and overflow are those of the payload, stored
   before or not; no stored key is gone. *)
C7_WebhookEditPath ==
    (last.op = "handle_update" /\ EditedOf(last.data) # <<>>) =>
        LET m == EditedOf(last.data)[1]
            k == <<m.chat.id, m.message_id>>
        IN /\ k \in DOMAIN db.messages
           /\ Content(db.messages[k]) = Content(bulk_prepare_messages(m))
           /\ DOMAIN last.pre.messages \subseteq DOMAIN db.messages

(* C8: after an edit method, a row that existed under the key of the edited
   message holds the edited content (also when the bot had no link to it or
   the payload embeds other messages); the update is left out only for a
   message that was unseen and has just been inserted. *)
C8_EditShortCircuit ==
    last.op = "edit" =>
        LET m == last.data
            k == <<m.chat.id, m.message_id>>
        IN /\ k \in DOMAIN last.pre.messages =>
                 Content(db.messages[k]) = Content(bulk_prepare_messages(m))
           /\ k \notin DOMAIN last.pre.messages =>
                 /\ k \in DOMAIN db.messages
                 /\ Content(db.messages[k]) = Content(bulk_prepare_messages(m))

(* The (source id, new id) pairs of a copy or forward request. *)
CopyPairs(rec) ==
    IF rec.op = "copy" THEN {<<rec.req.message_id, rec.data.message_id>>}
    ELSE IF Len(rec.req.message_ids) = Len(rec.data)
         THEN {<<rec.req.message_ids[i], rec.data[i]>> : i \in DOMAIN rec.data}
    ELSE {}

(* A copy or forward with no override of the content. *)
PlainCopy(rec) ==
    /\ rec.op \in {"copy", "bulk"}
    /\ rec.req.caption = NONE
    /\ rec.req.caption_entities = NONE
    /\ ~rec.req.show_caption_above_media
    /\ rec.req.reply_markup = NONE

(* C9: a copy or forward of a stored source (c1, m1) to the stored chat c2
   under the new id m2 leaves a new row (c2, m2), with no edit timestamp,
   without caption if remove_caption was asked of copyMessages, protected if
   protect_content was asked, in the thread asked for; the row (c1, m1) is
   as it was. *)
C9_CloneSynthesis ==
    (PlainCopy(last) /\ ~last.req.chat_id.handle
        /\ last.req.chat_id.v \in DOMAIN last.pre.chats) =>
        \A p \in CopyPairs(last) :
            LET src == <<last.req.from_chat_id, p[1]>>
                new == <<last.req.chat_id.v, p[2]>>
            IN (src \in DOMAIN last.pre.messages /\ new \notin DOMAIN last.pre.messages) =>
                  /\ new \in DOMAIN db.messages
                  /\ db.messages[new].edit_date = NULL
                  /\ (last.req.remove_caption /\ last.method = "copyMessages") =>
                        db.messages[new].caption = NONE
                  /\ last.method = "forwardMessages" =>
                        db.messages[new].caption = last.pre.messages[src].caption
                  /\ last.req.protect_content => db.messages[new].has_protected_content
                  /\ last.req.message_thread_id # NULL =>
                        db.messages[new].message_thread_id = last.req.message_thread_id
                  /\ db.messages[src] = last.pre.messages[src]

(* C10: a copy or forward of a stored source to an "@handle" no stored chat
   carries makes exactly one live fetch, stores the fetched chat and stores
   the clone under the fetched chat id. *)
C10_UnresolvedHandle ==
    (PlainCopy(last) /\ last.req.chat_id.handle /\ last.env.fetch_ok
        /\ JoinedChatIds(last.pre, last.req.chat_id.v) = {NULL}) =>
        \A p \in CopyPairs(last) :
            LET src == <<last.req.from_chat_id, p[1]>>
                new == <<last.env.info.id, p[2]>>
            IN (src \in DOMAIN last.pre.messages /\ new \notin DOMAIN last.pre.messages) =>
                  /\ last.fetches = 1
                  /\ last.env.info.id \in DOMAIN db.chats
                  /\ db.chats[last.env.info.id].username = last.env.info.username
                  /\ new \in DOMAIN db.messages

(* The stored chats a destination names: the chat of that number, or the
   chats that carry the handle as their username. *)
StoredDestination(d, chat_id) ==
    IF chat_id.handle THEN JoinedChatIds(d, chat_id.v) \ {NULL}
    ELSE {chat_id.v} \cap DOMAIN d.chats

(* C11: a copy or forward whose destination is stored, as a number or as the
   "@handle" of a stored chat, makes no live fetch; given by handle, the
   clone of a stored source is stored under the number of the chat that
   carries the handle. *)
C11_FetchOnlyIfUnresolved ==
    (PlainCopy(last) /\ StoredDestination(last.pre, last.req.chat_id) # {}) =>
        /\ last.fetches = 0
        /\ last.req.chat_id.handle =>
              \A p \in CopyPairs(last) :
                  LET src == <<last.req.from_chat_id, p[1]>>
                      new == <<last.env.first, p[2]>>
                  IN (src \in DOMAIN last.pre.messages
                        /\ new \notin DOMAIN last.pre.messages) =>
                        new \in DOMAIN db.messages

(* The copy or forward requests the synthesizer skips: a required field is
   missing, the id lists differ in length, or no source is stored. *)
Skipped(rec) ==
    /\ rec.op \in {"copy", "bulk"}
    /\ \/ rec.req.chat_id.v = NULL
       \/ rec.req.from_chat_id = NULL
       \/ /\ rec.op = "copy"
          /\ \/ rec.req.message_id = NULL
             \/ rec.data.message_id = NULL
             \/ <<rec.req.from_chat_id, rec.req.message_id>>
                    \notin DOMAIN rec.pre.messages
       \/ /\ rec.op = "bulk"
          /\ \/ rec.req.message_ids = <<>>
             \/ rec.data = <<>>
             \/ Len(rec.req.message_ids) # Len(rec.data)
             \/ \A i \in DOMAIN rec.req.message_ids :
                    <<rec.req.from_chat_id, rec.req.message_ids[i]>>
                        \notin DOMAIN rec.pre.messages

(* C12: a skipped copy or forward writes no row, makes no live fetch and
   raises no error. *)
C12_SkippedNoEffect ==
    Skipped(last) => (db = last.pre /\ last.fetches = 0 /\ ~last.raised)

(* C12, its case: a bulk copy whose id lists differ in length, with a stored
   source and a destination that is not stored and that get_chat would
   answer for. *)
C12_Witness ==
    /\ last.op = "bulk"
    /\ Len(last.req.message_ids) # Len(last.data)
    /\ last.req.from_chat_id # NULL
    /\ <<last.req.from_chat_id, last.req.message_ids[1]>> \in DOMAIN last.pre.messages
    /\ last.req.chat_id.v # NULL
    /\ StoredDestination(last.pre, last.req.chat_id) = {}
    /\ last.env.fetch_ok
    /\ db = last.pre

(* The requests of copyMessage that carry an override. *)
Overrides(req) ==
    \/ req.caption # NONE
    \/ req.caption_entities # NONE
    \/ req.show_caption_above_media
    \/ req.reply_markup # NONE

(* The fields of a stored clone that the overrides of req name hold the
   values of req; the other fields are those of the source row orig. *)
OnlyNamedFieldsSet(row, orig, req) ==
    /\ row.caption = (IF req.caption # NONE THEN req.caption ELSE orig.caption)
    /\ req.caption_entities # NONE =>
          Get(row.other_data, "caption_entities", NONE) = req.caption_entities
    /\ req.show_caption_above_media =>
          Get(row.other_data, "show_caption_above_media", FALSE)
    /\ req.reply_markup # NONE =>
          Get(row.other_data, "reply_markup", NONE) = req.reply_markup
    /\ row.text = orig.text
    /\ row.message_type = orig.message_type
    /\ row.from_user_id = orig.from_user_id
    /\ row.date = orig.date
    /\ row.has_protected_content = orig.has_protected_content
    /\ row.message_thread_id = orig.message_thread_id

(* C13: a copyMessage with a caption, caption_entities,
   show_caption_above_media or reply_markup override, of a stored source to
   a stored chat under an unused id, stores the clone; the clone holds the
   request's value in each named field and the source's value in the
   others. *)
C13_CopyOverrides ==
    (last.op = "copy" /\ Overrides(last.req) /\ ~last.req.chat_id.handle
        /\ last.req.chat_id.v \in DOMAIN last.pre.chats) =>
        LET src == <<last.req.from_chat_id, last.req.message_id>>
            new == <<last.req.chat_id.v, last.data.message_id>>
        IN (src \in DOMAIN last.pre.messages /\ new \notin DOMAIN last.pre.messages) =>
              /\ new \in DOMAIN db.messages
              /\ OnlyNamedFieldsSet(db.messages[new], last.pre.messages[src], last.req)

(* C14: a copy or forward of a stored source to a stored chat, under a new
   id that is already stored there (linked to the bot or not), raises no
   uniqueness violation and leaves the stored row and the links as they
   are, for each of the three methods. *)
C14_ClonesReconciled ==
    (PlainCopy(last) /\ ~last.req.chat_id.handle
        /\ last.req.chat_id.v \in DOMAIN last.pre.chats) =>
        \A p \in CopyPairs(last) :
            LET src == <<last.req.from_chat_id, p[1]>>
                new == <<last.req.chat_id.v, p[2]>>
            IN (src \in DOMAIN last.pre.messages /\ new \in DOMAIN last.pre.messages) =>
                  /\ ~last.raised
                  /\ db.messages[new] = last.pre.messages[new]
                  /\ Cardinality({l \in db.bot_messages :
                                     l = <<last.bot, new[1], new[2]>>}) <= 1

(* C15: the storage a webhook delivery or a proxy call leaves is either the
   storage it started from or that storage with all the writes of the unit;
   it is the storage it started from whenever a statement of the unit
   failed. *)
C15_AtomicUnit ==
    last.op \in {"handle_update", "send", "edit", "copy", "bulk", "refused"} =>
        /\ db \in {last.pre, last.writes}
        /\ last.raised => db = last.pre
        /\ ~last.raised => db = last.writes

(* C15, its case: a unit that had written a row (the fetched chat of a copy)
   when a later statement failed. *)
C15_Witness ==
    /\ last.op \in {"copy", "bulk"}
    /\ last.raised
    /\ last.fetches = 1
    /\ DOMAIN last.writes.chats # DOMAIN last.pre.chats
    /\ db = last.pre

(* The proxied calls. *)
ProxyOps == {"send", "edit", "copy", "bulk", "refused"}

(* C16: a proxied call the remote API answered returns the status and the
   body of that answer, whatever log_telegram_request or its commit raised;
   a webhook delivery is answered with 200, whatever the decoding of the
   update, the reconciling, the edit or the commit raised. *)
C16_PrimaryNeverFails ==
    /\ last.op \in ProxyOps =>
          (last.status_code = last.resp.status_code /\ last.content = last.resp.content)
    /\ last.op = "handle_update" => last.status_code = 200

(* C16, its case: a proxied call whose logging raised after the remote API
   had answered with its result. *)
C16_Witness ==
    /\ last.op \in ProxyOps
    /\ last.raised
    /\ last.resp = Accepted
    /\ last.status_code = 200
    /\ last.content = "result"

(* The position of an event in the list of events (0 if it is not in it). *)
Position(events, e) ==
    IF \E i \in DOMAIN events : events[i] = e
    THEN CHOOSE i \in DOMAIN events : events[i] = e
    ELSE 0

(* C17: in a webhook delivery the commit, or the failure of the
   synchronization, comes before the redirect POST; the POST is attempted
   exactly if a redirect URL is set, after a commit and after a failure
   alike; a POST that fails leaves what was committed in place, and the
   answer is 200. *)
C17_RedirectAfterSync ==
    last.op = "handle_update" =>
        /\ last.events[1] = (IF last.raised THEN "exception logged" ELSE "commit")
        /\ last.webhook.redirect_url <=> Position(last.events, "post") > 1
        /\ Position(last.events, "commit") <= 1
        /\ Position(last.events, "exception logged") <= 1
        /\ db = (IF last.raised THEN last.pre ELSE last.writes)
        /\ last.status_code = 200

(* C17, its case: a delivery that committed an edit and whose redirect POST
   then failed. *)
C17_Witness ==
    /\ last.op = "handle_update"
    /\ last.webhook.redirect_url
    /\ ~last.webhook.post_ok
    /\ ~last.raised
    /\ db # last.pre
    /\ last.events = <<"commit", "post", "post failed">>

(* The keys a unit of the race resolved as not existing, rightly, and goes
   on to insert: the destination chat a copy fetches, what the resolver
   reported as not existing. *)
Attempted(r) ==
    IF r.op = "copy"
    THEN IF r.seen.src_found /\ r.seen.found = NULL
            /\ r.env.info.id \notin DOMAIN r.pre.chats
         THEN {<<CHAT, r.env.info.id>>} ELSE {}
    ELSE IF r.seen.check.raised THEN {}
    ELSE {<<USER, k>> : k \in DOMAIN partition_rows(r.seen.check.rows).users}
         \cup {<<CHAT, k>> : k \in DOMAIN partition_rows(r.seen.check.rows).chats}
         \cup {<<MESSAGE, k>> : k \in DOMAIN partition_rows(r.seen.check.rows).messages}
         \cup {<<FILE, k>> : k \in DOMAIN partition_rows(r.seen.check.rows).files}

StoredKey(d, k) ==
    CASE k[1] = USER -> k[2] \in DOMAIN d.users
      [] k[1] = CHAT -> k[2] \in DOMAIN d.chats
      [] k[1] = MESSAGE -> k[2] \in DOMAIN d.messages
      [] k[1] = FILE -> k[2] \in DOMAIN d.files

BothDone ==
    /\ prev.op # "none" /\ last.op # "none"
    /\ prev.phase = "done" /\ last.phase = "done"

(* C18: when two overlapping units both resolved a key as not existing and
   both went on to insert it, the key is stored afterwards (once: it is a
   primary key), the unit that wrote first did not fail, the other failed,
   and both answers are those of a success: the remote API's answer, or
   200. *)
C18_DuplicateInsertRace ==
    (BothDone /\ Attempted(prev) \cap Attempted(last) # {}) =>
        /\ \A k \in Attempted(prev) \cap Attempted(last) : StoredKey(db, k)
        /\ prev.order < last.order => (~prev.raised /\ last.raised)
        /\ last.order < prev.order => (~last.raised /\ prev.raised)
        /\ prev.status_code = 200
        /\ last.status_code = 200

(* C18, its case: both units read the destination chat as not stored before
   either wrote, the second to write failed, the chat is stored. *)
C18_Witness ==
    /\ BothDone
    /\ Attempted(prev) \cap Attempted(last) # {}
    /\ prev.raised # last.raised
    /\ \A k \in Attempted(prev) \cap Attempted(last) : StoredKey(db, k)

----------------------------------------------------------------------------
(* C19: after a successful getMe answer for user u has been processed, a
   row of u is stored (inserted if it was absent) and its first name, last
   name, username, locale, premium flag and bot flag equal the snapshot's. *)
C19_SelfIdentityRefresh ==
    (last.op = "me" /\ ~last.raised) =>
        /\ last.data.id \in DOMAIN db.users
        /\ db.users[last.data.id] = prepare_user(last.data)

----------------------------------------------------------------------------
(* The units that refresh a chat from a full chat-info snapshot. *)
ChatInfoOps == {"chat_info", "avatar"}

AvatarIds(S) ==
    IF S.photo = NoPhoto THEN {}
    ELSE {S.photo.small_file_unique_id, S.photo.big_file_unique_id}

(* The storage d holds snapshot S as refreshed for bot B. *)
Refreshed(d, S, B) ==
    /\ S.id \in DOMAIN d.chats
    /\ d.chats[S.id].type = S.type
    /\ d.chats[S.id].title = S.title
    /\ d.chats[S.id].username = S.username
    /\ d.chats[S.id].personal_chat_id = S.personal_chat.id
    /\ d.chats[S.id].parent_chat_id = S.parent_chat.id
    /\ d.chats[S.id].pinned_message_id = S.pinned_message.message_id
    /\ d.chats[S.id].photo_small_id = S.photo.small_file_unique_id
    /\ d.chats[S.id].photo_big_id = S.photo.big_file_unique_id
    /\ d.chats[S.id].other_data = [k \in {"accent_color_id"} |-> S.accent_color_id]
    /\ \A f \in AvatarIds(S) : f \in DOMAIN d.files /\ <<B, f>> \in DOMAIN d.bot_files

(* C20: a chat full-info refresh is an idempotent upsert: after a refresh
   of snapshot S for bot B the one chat row of S.id holds the promoted
   fields, the personal/parent chat links, the pinned message id, the avatar
   file ids and the overflow of S, each avatar file has its file row and its
   link to B, and repeating the refresh adds no row and raises no error. *)
C20_ChatInfoUpsert ==
    last.op \in ChatInfoOps =>
        /\ ~last.raised
        /\ Refreshed(db, last.data, last.bot)
        /\ ~RunUnit(db, last).raised
        /\ Committed(RunUnit(db, last)) = db

----------------------------------------------------------------------------
(* The full chat-info snapshots the unit rec persisted: the answer of
   getChatFullInfo, the answer get_chat gave the avatar route, or the chat
   fetched for a copy/forward destination that was not stored. *)
PersistedSnapshots(rec) ==
    IF rec.op \in ChatInfoOps THEN {rec.data}
    ELSE IF rec.op \in {"copy", "bulk"} /\ rec.fetches > 0 /\ rec.env.fetch_ok
    THEN {rec.env.info}
    ELSE {}

LinkedIds(S) == {S.personal_chat.id, S.parent_chat.id} \ {NULL}

(* C21: on every refresh path (getChatFullInfo answer, fetch of an unknown
   copy/forward destination, avatar route) a snapshot that names a personal
   or parent chat which is not stored is persisted without a
   referential-integrity failure: the linked chat's row and the refreshed
   chat's row with its links have been written. *)
C21_LinksResolved ==
    \A S \in PersistedSnapshots(last) :
        ~(LinkedIds(S) \subseteq DOMAIN last.pre.chats) =>
            /\ LinkedIds(S) \subseteq DOMAIN last.writes.chats
            /\ S.id \in DOMAIN last.writes.chats
            /\ last.writes.chats[S.id].personal_chat_id = S.personal_chat.id
            /\ last.writes.chats[S.id].parent_chat_id = S.parent_chat.id

----------------------------------------------------------------------------
(* The API names of the columns of each entity kind: for messages the keys
   TelegramMessage.to_dict lays the overflow over, for chats and files the
   names the snapshot and the file dict use for the promoted fields. *)
MessageColumnKeys ==
    {"message_id", "chat", "message_thread_id", "message_type", "text", "caption",
     "from", "date", "edit_date", "has_protected_content"}

ChatColumnKeys ==
    {"id", "type", "title", "username", "personal_chat", "parent_chat",
     "pinned_message", "photo"}

FileColumnKeys == {"file_unique_id", "file_type", "file_size", "mime_type"}

(* C22: in every reachable storage the overflow map (other_data) of every
   chat, message and file row holds no key that is promoted to a column of
   that kind, whichever path wrote the row: reconciler, edit path, chat
   full-info refresher or clone synthesis. *)
C22_OverflowDisjoint ==
    /\ \A k \in DOMAIN db.messages :
          DOMAIN db.messages[k].other_data \cap MessageColumnKeys = {}
    /\ \A c \in DOMAIN db.chats :
          DOMAIN db.chats[c].other_data \cap ChatColumnKeys = {}
    /\ \A f \in DOMAIN db.files :
          DOMAIN db.files[f].other_data \cap FileColumnKeys = {}

----------------------------------------------------------------------------
(* The objects reachable from root through children. *)
RECURSIVE Closure(_, _)
Closure(heap, S) ==
    IF UNION {{heap[n].kids[i] : i \in DOMAIN heap[n].kids} : n \in S} \subseteq S
    THEN S
    ELSE Closure(heap, S \cup UNION {{heap[n].kids[i] : i \in DOMAIN heap[n].kids} : n \in S})

KeysOfClass(heap, root, cls) ==
    {heap[n].key : n \in {x \in Closure(heap, {root}) : heap[x].cls = cls}}

(* C23: the four maps of collect_entities have as key sets exactly the ids
   of all User, Chat and Message objects and of all objects of a recognized
   file class reachable from the payload; an object of an unrecognized class
   that has file_unique_id and file_id adds no key and does not remove a
   recognized file of the same unique id. *)
C23_ExtractorComplete ==
    last.op = "collect_entities" =>
        /\ DOMAIN last.users = KeysOfClass(db, 1, "User")
        /\ DOMAIN last.chats = KeysOfClass(db, 1, "Chat")
        /\ DOMAIN last.messages = KeysOfClass(db, 1, "Message")
        /\ DOMAIN last.files = KeysOfClass(db, 1, "PhotoSize")

----------------------------------------------------------------------------
NoRepeats(seq) == \A i, j \in DOMAIN seq : seq[i] = seq[j] => i = j

Kids(heap, n) == {heap[n].kids[i] : i \in DOMAIN heap[n].kids}

(* The object n lies on a cycle / is held by two places of the payload. *)
OnCycle(heap, n) == n \in Closure(heap, Kids(heap, n))

Shared(heap, root, n) ==
    \/ \E a, b \in Closure(heap, {root}) : a # b /\ n \in Kids(heap, a) \cap Kids(heap, b)
    \/ \E a \in Closure(heap, {root}) :
          \E i, j \in DOMAIN heap[a].kids :
              i # j /\ heap[a].kids[i] = n /\ heap[a].kids[j] = n

(* C24: on every finite payload graph, with shared objects and with cycles,
   find_instances and find_objects_with_attributes end, having expanded
   every reachable object once and no object twice, so that each object is
   reported at most once. *)
C24_ExtractorTerminates ==
    last.op = "collect_entities" =>
        \A w \in DOMAIN last.walks :
            /\ NoRepeats(last.walks[w].expanded)
            /\ NoRepeats(last.walks[w].found)
            /\ {last.walks[w].expanded[i] : i \in DOMAIN last.walks[w].expanded}
                  = Closure(db, {1})

(* A payload with a cycle and with a shared entity has been walked. *)
C24_Witness ==
    /\ last.op = "collect_entities"
    /\ \E n \in Closure(db, {1}) : OnCycle(db, n)
    /\ \E n \in Closure(db, {1}) : Shared(db, 1, n) /\ db[n].cls = "User"
    /\ DOMAIN last.users = {1}

(* C25: two runs of collect_entities on the same payload return the same
   key sets of users, chats, messages and files, and for each key the same
   (first encountered) object. *)
C25_ExtractorDeterministic ==
    (last.op = "collect_entities" /\ prev.op = "collect_entities") =>
        /\ last.users = prev.users
        /\ last.chats = prev.chats
        /\ last.messages = prev.messages
        /\ last.files = prev.files

(* Two runs on a payload that holds two photo sizes of unique id 1: both
   runs report the one met first. *)
C25_Witness ==
    /\ last.op = "collect_entities"
    /\ prev.op = "collect_entities"
    /\ \E a, b \in Closure(db, {1}) :
          /\ a # b
          /\ db[a] = db[b]
          /\ db[a].cls = "PhotoSize"
          /\ db[a].key \in DOMAIN last.files
          /\ last.files[db[a].key] = last.walks[4].found[1]
          /\ prev.files[db[a].key] = last.files[db[a].key]

----------------------------------------------------------------------------
(* The place of a bulk statement in the order users, chats, messages,
   bot-message links, files, bot-file links. *)
Rank(name) ==
    CASE name = "users" -> 1
      [] name = "chats" -> 2
      [] name = "messages" -> 3
      [] name = "bot_messages" -> 4
      [] name = "files" -> 5
      [] name = "bot_files" -> 6

(* What the statement of the entry s is about to write finds its references
   stored. *)
ReferencesStored(rec, s) ==
    CASE s.stmt = "messages" ->
            \A k \in DOMAIN rec.new.messages :
                ~MessageFkViolation(s.before, k[1],
                     bulk_prepare_messages(collect_entities(rec.objs).messages[k]))
      [] s.stmt = "bot_messages" ->
            \A k \in DOMAIN rec.new.bot_messages : k \in DOMAIN s.before.messages
      [] s.stmt = "bot_files" ->
            \A f \in DOMAIN rec.new.bot_files : f \in DOMAIN s.before.files
      [] OTHER -> TRUE

(* C26: within one log_object call the bulk statements execute in the
   order users, chats, messages, bot-message links, files, bot-file links;
   hence (the resolver's answer being true of the storage) when a message
   row is inserted its chat row and its sender's row exist, every link row
   is inserted after the row it links, and no statement fails. *)
C26_InsertOrder ==
    last.op = "log_object" =>
        /\ \A i, j \in DOMAIN last.stmts :
              i < j => Rank(last.stmts[i].stmt) < Rank(last.stmts[j].stmt)
        /\ last.view = last.pre =>
              /\ ~last.raised
              /\ \A i \in DOMAIN last.stmts : ReferencesStored(last, last.stmts[i])

(* A message of a chat and a sender that are not stored is logged with its
   photo: all six statements run. *)
C26_Witness ==
    /\ last.op = "log_object"
    /\ last.view = last.pre
    /\ Len(last.stmts) = 6
    /\ ~last.raised
    /\ \E k \in DOMAIN last.new.messages :
          /\ k[1] \notin DOMAIN last.pre.chats
          /\ k \in DOMAIN last.writes.messages
          /\ last.writes.messages[k].from_user_id \in
                DOMAIN last.writes.users \ DOMAIN last.pre.users

----------------------------------------------------------------------------
(* The keys of the entities the event of the unit r holds. *)
EventKeys(r) ==
    {<<USER, k>> : k \in DOMAIN collect_entities(r.objs).users}
    \cup {<<CHAT, k>> : k \in DOMAIN collect_entities(r.objs).chats}
    \cup {<<MESSAGE, k>> : k \in DOMAIN collect_entities(r.objs).messages}
    \cup {<<FILE, k>> : k \in DOMAIN collect_entities(r.objs).files}

Linked(d, bot_id, k) ==
    CASE k[1] = MESSAGE -> <<bot_id, k[2][1], k[2][2]>> \in d.bot_messages
      [] k[1] = FILE -> <<bot_id, k[2]>> \in DOMAIN d.bot_files
      [] OTHER -> TRUE

(* The message and file keys both units read as not stored and went on to
   insert. *)
RacedKeys ==
    {k \in Attempted(prev) \cap Attempted(last) : k[1] \in {MESSAGE, FILE}}

(* C27: when two overlapping units of different bots A and B both sight the
   same unknown message M (or file F) and race on inserting it, after both
   have finished the links (A, M) and (B, M) exist and every other entity of
   the losing unit's event is stored. *)
C27_LoserLosesNothing ==
    (BothDone /\ prev.bot # last.bot /\ RacedKeys # {}) =>
        /\ \A k \in RacedKeys : Linked(db, prev.bot, k) /\ Linked(db, last.bot, k)
        /\ \A k \in EventKeys(prev) \cup EventKeys(last) : StoredKey(db, k)

----------------------------------------------------------------------------
(* The last edit of the key k in the list of edited messages. *)
RECURSIVE LastEdit(_, _)
LastEdit(messages, k) ==
    IF messages = <<>> THEN <<>>
    ELSE IF <<messages[Len(messages)].chat.id, messages[Len(messages)].message_id>> = k
         THEN <<messages[Len(messages)]>>
    ELSE LastEdit(SubSeq(messages, 1, Len(messages) - 1), k)

EditedKeys(messages) ==
    {<<messages[i].chat.id, messages[i].message_id>> : i \in DOMAIN messages}

(* C28: after a getUpdates result with edits of the message key (c, m), the
   row (c, m) exists and holds the content of the last edit of (c, m) in the
   list, whether (c, m) was stored before the batch or not. *)
C28_EditsInListOrder ==
    last.op = "updates" =>
        \A k \in EditedKeys(updated_messages(last.data)) :
            /\ k \in DOMAIN db.messages
            /\ db.messages[k] =
                   bulk_prepare_messages(LastEdit(updated_messages(last.data), k)[1])

----------------------------------------------------------------------------
(* The chat the clones of the bulk request of rec go to. *)
BulkDestination(rec) ==
    DestinationId(ResolveDestination(rec.pre, rec.req.chat_id, rec.env), rec.env)

(* The row is the clone of the stored source: its content, no edit time. *)
CloneOf(row, source) ==
    /\ row.edit_date = NULL
    /\ row.text = source.text
    /\ row.from_user_id = source.from_user_id

(* C29: copyMessages / forwardMessages with request ids [s1..sk] and result
   ids [n1..nk] pair the ids by position: the clone of every stored source si
   is stored under (destination, ni), no row (destination, ni) is created
   for a source that is not stored, and no row is created under a new id
   paired with another source. *)
C29_BulkPairsByPosition ==
    (/\ last.op = "bulk"
     /\ PlainCopy(last)
     /\ Len(last.req.message_ids) = Len(last.data)
     /\ ResolveDestination(last.pre, last.req.chat_id, last.env) # NULL
            \/ last.env.fetch_ok) =>
        \A i \in DOMAIN last.data :
            LET src == <<last.req.from_chat_id, last.req.message_ids[i]>>
                new == <<BulkDestination(last), last.data[i]>>
            IN new \notin DOMAIN last.pre.messages =>
                  /\ src \in DOMAIN last.pre.messages =>
                        /\ new \in DOMAIN db.messages
                        /\ CloneOf(db.messages[new], last.pre.messages[src])
                  /\ src \notin DOMAIN last.pre.messages =>
                        new \notin DOMAIN db.messages

----------------------------------------------------------------------------
(* C30: after any sequence of create_or_transfer_bot, add_bot_user and
   delete_bot_user calls every bot has at most one link with role OWNER; a
   grant of OWNER to a user who had no link to the bot leaves the previous
   owner a VIEWER. *)
C30_SingleOwner ==
    \A bot_id \in Bots :
        /\ Cardinality(OwnersOf(db, bot_id)) <= 1
        /\ (/\ last.op = "add_bot_user"
            /\ last.bot = bot_id
            /\ last.role = OWNER
            /\ last.status_code = 200
            /\ ~get_userbot_mapping(last.pre, bot_id, last.target)) =>
               \A u \in OwnersOf(last.pre, bot_id) :
                   /\ get_userbot_mapping(db, bot_id, u)
                   /\ db.links[<<u, bot_id>>] = VIEWER

====
